---- MODULE Spec2Model ----
(***************************************************************************)
(* MacroForge: the macro run state machine (BaseMacro.run with its         *)
(* pause/resume/stop controls), the step interpreter (ScriptMacro) and the *)
(* MacroEngine that starts, stops and queues runs on worker threads.       *)
(*                                                                         *)
(* Threads are modelled by program counters.  Every read of a shared       *)
(* attribute that the code performs separately from the write depending on *)
(* it is a separate step, so that the interleavings of the worker threads  *)
(* with the thread issuing control calls are those of the code.            *)
(***************************************************************************)
EXTENDS Integers, Sequences, FiniteSets, TLC

(* ---------------------------------------------------------------- bounds *)

\* macro instances constructed in one behaviour
MaxMacros == 4
\* threads spawned in one behaviour
MaxThreads == 2
\* cap of BaseMacro._loop_count (the code counts without bound)
MaxLoops == 5
\* largest total_repeats passed to start_queue
MaxTotal == 2
\* cap of _loop_count in the engine specification
EngineLoops == 2
\* control calls issued in one behaviour
MaxCalls == 3

\* threads the BackgroundWorker starts in one behaviour
MaxBgThreads == 2
\* calls made on the BackgroundWorker in one behaviour
MaxBgCalls == 3
\* time.time() when the model starts: far beyond every interval + jitter
\* (time.time() counts from 1970, an interval is at most 300 s)
Epoch == 5
\* the clock stops advancing here
MaxClock == 8

Macro == 1..MaxMacros
Thread == 1..MaxThreads

(* --------------------------------------------------------------- scripts *)

\* a flow directive: "next", "stop", "retry", "loop", "goto:N" (op "goto",
\* target n), "goto:<not a number>" (op "goto_bad"), anything else (op "other")
Dir(op) == [op |-> op, n |-> 0]
Goto(n) == [op |-> "goto", n |-> n]

\* a MacroStep: only the fields the interpreter's control flow reads
Step(ty, os, of, k) ==
  [type |-> ty, on_success |-> os, on_fail |-> of, max_retries |-> k]

\* the scripts handed to the engine (MacroScript.steps)
ScriptLib ==
  << << >>,
     << Step("click_image", Dir("next"), Dir("retry"), 2),
        Step("click_coord", Dir("stop"), Dir("retry"), 10) >>,
     << Step("wait_for_image", Dir("next"), Dir("retry"), 3) >>,
     << Step("if_image", Dir("loop"), Dir("retry"), 1),
        Step("swipe", Dir("next"), Dir("retry"), 10) >>,
     << Step("wait", Dir("stop"), Dir("retry"), 10) >>,
     << Step("wait", Dir("loop"), Dir("retry"), 10) >>,
     << Step("wait", Goto(99), Dir("retry"), 10),
        Step("wait", Dir("next"), Dir("retry"), 10),
        Step("wait", Dir("next"), Dir("retry"), 10) >>,
     << Step("wait", Dir("next"), Dir("retry"), 10),
        Step("click_coord", Dir("next"), Dir("retry"), 10) >>,
     << Step("if_image", Goto(1), Dir("retry"), 2),
        Step("wait_for_image", Dir("stop"), Dir("retry"), 3) >> >>

\* script id 0 stands for the built-in SampleMacro (no step list)
Builtin == 0
ScriptIds == 1..Len(ScriptLib)

\* the step types whose _exec can return False
CAN_FAIL_TYPES == {"click_image", "wait_for_image", "if_image"}

\* the step types whose _exec talks to the device (and so can raise)
DeviceTypes == {"click_image", "click_coord", "wait_for_image", "if_image", "swipe"}

(* ----------------------------------------------------------------- state *)

VARIABLES
  mac,   \* macro instances: BaseMacro / ScriptMacro fields, and observations
  thr,   \* threads: kind, program counter, locals
  eng,   \* MacroEngine fields: _current_macro, _thread, _queue_stop
  ctl,   \* the thread issuing the engine's control calls
  bg,    \* the BackgroundWorker: its fields, its thread, the clock
  adb,   \* one ADBController._run_shell call and what it did
  dev,   \* ADBController: the sizes and the scale of connect, the input sent
  scr,   \* ScreenCapture: the cached frame, its time, the last call
  inp,   \* InputSimulator: the last click and what it sent
  hum,   \* Humanizer.humanize_coords: the last call
  img    \* ImageMatcher: the last find / find_all

vars == <<mac, thr, eng, ctl, bg, adb, dev, scr, inp, hum, img>>

\* the engine's variables
engine == <<mac, thr, eng, ctl>>

\* the components below the engine, each left alone by the others' steps
units == <<dev, scr, inp, hum, img>>

\* the BackgroundWorker, the ADB call and the components take no part in the
\* engine's steps
others == <<bg, adb, units>>

\* a macro instance that is not constructed yet
NoMacro ==
  [state |-> "none", script |-> Builtin, step_idx |-> 0, retry_count |-> 0,
   loop_count |-> 0,
   \* observations (not fields of the code)
   stopReq |-> FALSE,        \* stop() was applied while RUNNING or PAUSED
   stopMissed |-> FALSE,     \* MacroEngine.stop() returned without applying it,
                             \* the macro being current and its worker started
   noteBy |-> "none",        \* who made the last state change ...
   noteOld |-> "none",       \* ... and the state it replaced (_on_state_change)
   errs |-> 0,               \* calls of on_error
   steps |-> 0,              \* steps begun by _exec
   fails |-> 0,              \* current streak of failed attempts of one step
   nfail |-> 0,              \* failed attempts of all steps
   last |-> "none"]          \* what _flow did after the last step

\* BaseMacro.__init__ / ScriptMacro.__init__
NewMacro(s) == [NoMacro EXCEPT !.state = "idle", !.script = s]

NoThread ==
  [kind |-> "none", pc |-> "done", macro |-> 0, sidx |-> 0, ok |-> TRUE, tear |-> 0,
   seen |-> TRUE,            \* whether the screen held what the last step looked
                             \* for (an observation)
   queue |-> 0, total |-> 0, round |-> 0, idx |-> 0, rep |-> 0,
   after |-> 0,              \* the worker that was active when this one was asked for
                             \* (an observation)
   runs |-> 0,               \* sub-runs this queue thread has begun (an observation)
   lastrun |-> <<0, 0, 0>>]  \* round, item index and repetition (from 1) of the last
                             \* one (an observation)

IdleCtl ==
  [pc |-> "idle", ret |-> "idle", join |-> FALSE, arg |-> 0, arg2 |-> 0, target |-> 0,
   calls |-> 0,              \* control calls issued so far (an observation)
   halted |-> FALSE,         \* one of them asked a worker to stop (an observation)
   prior |-> 0]              \* the worker active when a start was called (an observation)

Alive(t) == thr[t].kind # "none" /\ thr[t].pc # "done"

FreeMacros == {m \in Macro : mac[m].state = "none"}
FreeThreads == {t \in Thread : thr[t].kind = "none"}
FirstOf(S) == CHOOSE x \in S : \A y \in S : x <= y

(* ------------------------------------------------------------- BaseMacro *)

\* the state setter: no change and no notification when the value is the same
SetState(mc, m, value, by) ==
  IF mc[m].state = value THEN mc
  ELSE [mc EXCEPT ![m].state = value, ![m].noteBy = by, ![m].noteOld = mc[m].state]

\* BaseMacro.stop: sets STOPPED whatever the state is
BaseStop(mc, m, by) ==
  [SetState(mc, m, "stopped", by) EXCEPT
     ![m].stopReq = @ \/ mc[m].state \in {"running", "paused"}]

IsBuiltin(m) == mac[m].script = Builtin
Steps(m) == ScriptLib[mac[m].script]

\* script.steps[idx] with Python's indexing (a negative index counts from the end)
StepAt(sc, idx) == IF idx >= 0 THEN sc[idx + 1] ELSE sc[Len(sc) + idx + 1]

\* what the screen holds for a step: whether its template is there to be
\* found (a step without a template finds nothing to miss)
OnScreen(ty) == IF ty \in CAN_FAIL_TYPES THEN BOOLEAN ELSE {TRUE}

\* the value _exec returns for a step; wait_for gives up when the state is not
\* RUNNING at its poll
ExecResult(ty, st, seen) ==
  IF ty = "wait_for_image" /\ st # "running" THEN FALSE ELSE seen

\* a faulty _flow: the retry limit tested with > instead of >=
FlowLate(step, success, idx, retry) ==
  LET action == IF success THEN step.on_success ELSE step.on_fail
      r0 == IF success THEN 0 ELSE retry
  IN CASE action.op = "next" -> [idx |-> idx + 1, retry |-> 0, act |-> "next"]
       [] action.op = "stop" -> [idx |-> idx, retry |-> r0, act |-> "stop"]
       [] action.op = "retry" ->
            IF r0 + 1 > step.max_retries
            THEN [idx |-> idx + 1, retry |-> 0, act |-> "force"]
            ELSE [idx |-> idx, retry |-> r0 + 1, act |-> "retry"]
       [] action.op = "loop" -> [idx |-> 0, retry |-> 0, act |-> "loop"]
       [] action.op = "goto" -> [idx |-> action.n, retry |-> 0, act |-> "goto"]
       [] OTHER -> [idx |-> idx + 1, retry |-> r0, act |-> "advance"]

\* a faulty _flow: a successful step does not reset the retry counter
FlowKeepsCount(step, success, idx, retry) ==
  LET action == IF success THEN step.on_success ELSE step.on_fail
      r0 == retry
  IN CASE action.op = "next" -> [idx |-> idx + 1, retry |-> 0, act |-> "next"]
       [] action.op = "stop" -> [idx |-> idx, retry |-> r0, act |-> "stop"]
       [] action.op = "retry" ->
            IF r0 + 1 >= step.max_retries
            THEN [idx |-> idx + 1, retry |-> 0, act |-> "force"]
            ELSE [idx |-> idx, retry |-> r0 + 1, act |-> "retry"]
       [] action.op = "loop" -> [idx |-> 0, retry |-> 0, act |-> "loop"]
       [] action.op = "goto" -> [idx |-> action.n, retry |-> 0, act |-> "goto"]
       [] OTHER -> [idx |-> idx + 1, retry |-> r0, act |-> "advance"]

\* ScriptMacro._flow on the counters: the new index, the new retry counter
\* and what was done ("stop": self.stop() is called; "retry": retry_delay is slept)
Flow(step, success, idx, retry) ==
  LET action == IF success THEN step.on_success ELSE step.on_fail
      r0 == IF success THEN 0 ELSE retry
  IN CASE action.op = "next" -> [idx |-> idx + 1, retry |-> 0, act |-> "next"]
       [] action.op = "stop" -> [idx |-> idx, retry |-> r0, act |-> "stop"]
       [] action.op = "retry" ->
            IF r0 + 1 >= step.max_retries
            THEN [idx |-> idx + 1, retry |-> 0, act |-> "force"]
            ELSE [idx |-> idx, retry |-> r0 + 1, act |-> "retry"]
       [] action.op = "loop" -> [idx |-> 0, retry |-> 0, act |-> "loop"]
       [] action.op = "goto" -> [idx |-> action.n, retry |-> 0, act |-> "goto"]
       [] OTHER -> [idx |-> idx + 1, retry |-> r0, act |-> "advance"]

(* ---------------------------------------------------- the worker: run() *)

\* MacroEngine._run_macro: the thread runs whatever _current_macro is when it
\* gets to execute; None raises AttributeError, caught by _run_macro
Begin(t) ==
  /\ thr[t].kind = "run" /\ thr[t].pc = "spawned"
  /\ thr' = [thr EXCEPT ![t].macro = eng.current_macro,
                        ![t].pc = IF eng.current_macro = 0 THEN "done" ELSE "run_start"]
  /\ UNCHANGED <<mac, eng, ctl, others>>

\* BaseMacro.run, first lines: state = RUNNING, loop_count = 0
RunStart(t) ==
  /\ thr[t].pc = "run_start"
  /\ LET m == thr[t].macro IN
       mac' = [SetState(mac, m, "running", "run") EXCEPT ![m].loop_count = 0]
  /\ thr' = [thr EXCEPT ![t].pc = "setup", ![t].tear = 0]
  /\ UNCHANGED <<eng, ctl, others>>

\* ScriptMacro.setup (raises on an empty step list) / SampleMacro.setup
Setup(t) ==
  /\ thr[t].pc = "setup"
  /\ LET m == thr[t].macro IN
       IF IsBuiltin(m)
       THEN /\ thr' = [thr EXCEPT ![t].pc = "loopchk"]
            /\ mac' = mac
       ELSE /\ mac' = [mac EXCEPT ![m].step_idx = 0, ![m].retry_count = 0]
            /\ thr' = [thr EXCEPT ![t].pc = IF Len(Steps(m)) = 0 THEN "fatal" ELSE "loopchk"]
  /\ UNCHANGED <<eng, ctl, others>>

\* where the worker goes from the loop test, given the state it reads
LoopTarget(st) == IF st = "running" THEN "loop" ELSE "teardown"

\* while self._state == RUNNING: loop_count += 1
LoopChk(t, cap) ==
  /\ thr[t].pc = "loopchk"
  /\ LET m == thr[t].macro
         to == LoopTarget(mac[m].state)
     IN /\ to = "loop" => mac[m].loop_count < cap
        /\ thr' = [thr EXCEPT ![t].pc = to]
        /\ mac' = IF to = "loop" THEN [mac EXCEPT ![m].loop_count = @ + 1] ELSE mac
  /\ UNCHANGED <<eng, ctl, others>>

\* SampleMacro.loop: wait(1)
BuiltinLoop(t) ==
  /\ thr[t].pc = "loop"
  /\ IsBuiltin(thr[t].macro)
  /\ thr' = [thr EXCEPT ![t].pc = "pausechk"]
  /\ UNCHANGED <<mac, eng, ctl, others>>

\* ScriptMacro.loop, past the last step: back to the first one
LoopWrap(t) ==
  /\ thr[t].pc = "loop"
  /\ LET m == thr[t].macro IN
       /\ ~IsBuiltin(m)
       /\ mac[m].step_idx >= Len(Steps(m))
       /\ mac' = [mac EXCEPT ![m].step_idx = 0, ![m].retry_count = 0]
  /\ thr' = [thr EXCEPT ![t].pc = "pausechk"]
  /\ UNCHANGED <<eng, ctl, others>>

\* ScriptMacro._exec returning: the step succeeded or failed
Exec(t) ==
  /\ thr[t].pc = "loop"
  /\ LET m == thr[t].macro IN
       /\ ~IsBuiltin(m)
       /\ mac[m].step_idx < Len(Steps(m))
       /\ \E seen \in OnScreen(StepAt(Steps(m), mac[m].step_idx).type) :
          LET ok == ExecResult(StepAt(Steps(m), mac[m].step_idx).type, mac[m].state, seen) IN
            /\ thr' = [thr EXCEPT ![t].pc = "flow", ![t].sidx = mac[m].step_idx,
                                  ![t].ok = ok, ![t].seen = seen]
            /\ mac' = [mac EXCEPT
                 ![m].steps = @ + 1,
                 ![m].fails = IF ok THEN 0
                              ELSE IF mac[m].last = "retry" THEN @ + 1 ELSE 1,
                 ![m].nfail = IF ok THEN @ ELSE @ + 1]
  /\ UNCHANGED <<eng, ctl, others>>

\* ScriptMacro._exec raising (a device command failing to launch or timing out)
ExecRaise(t) ==
  /\ thr[t].pc = "loop"
  /\ LET m == thr[t].macro IN
       /\ ~IsBuiltin(m)
       /\ mac[m].step_idx < Len(Steps(m))
       /\ StepAt(Steps(m), mac[m].step_idx).type \in DeviceTypes
       /\ mac' = [mac EXCEPT ![m].steps = @ + 1]
  /\ thr' = [thr EXCEPT ![t].pc = "on_error"]
  /\ UNCHANGED <<eng, ctl, others>>

\* ScriptMacro._flow
FlowStep(t) ==
  /\ thr[t].pc = "flow"
  /\ LET m == thr[t].macro
         f == Flow(StepAt(Steps(m), thr[t].sidx), thr[t].ok,
                   mac[m].step_idx, mac[m].retry_count)
         mc == [mac EXCEPT ![m].step_idx = f.idx, ![m].retry_count = f.retry,
                           ![m].last = f.act]
     IN /\ mac' = IF f.act = "stop" THEN BaseStop(mc, m, "flow") ELSE mc
        /\ thr' = [thr EXCEPT ![t].pc = IF f.act = "retry" THEN "retry_sleep" ELSE "pausechk"]
  /\ UNCHANGED <<eng, ctl, others>>

\* time.sleep(step.retry_delay)
RetrySleep(t) ==
  /\ thr[t].pc = "retry_sleep"
  /\ thr' = [thr EXCEPT ![t].pc = "pausechk"]
  /\ UNCHANGED <<mac, eng, ctl, others>>

\* a faulty handler: the exception of an iteration ends the run in ERROR
OnErrorHalts(mc, m) ==
  [mac |-> SetState([mc EXCEPT ![m].errs = @ + 1], m, "error", "fatal"),
   pc |-> "teardown"]

\* what the per-iteration handler does to the macro and where the worker goes
OnErrorEffect(mc, m) ==
  [mac |-> [mc EXCEPT ![m].errs = @ + 1], pc |-> "cooldown"]

\* except Exception as e: self.on_error(e)
OnError(t) ==
  /\ thr[t].pc = "on_error"
  /\ LET e == OnErrorEffect(mac, thr[t].macro) IN
       /\ mac' = e.mac
       /\ thr' = [thr EXCEPT ![t].pc = e.pc]
  /\ UNCHANGED <<eng, ctl, others>>

\* if self._state == RUNNING: time.sleep(1)
Cooldown(t) ==
  /\ thr[t].pc = "cooldown"
  /\ thr' = [thr EXCEPT ![t].pc = "pausechk"]
  /\ UNCHANGED <<mac, eng, ctl, others>>

\* while self._state == PAUSED: time.sleep(0.1)
PauseChk(t) ==
  /\ thr[t].pc = "pausechk"
  /\ mac[thr[t].macro].state # "paused"
  /\ thr' = [thr EXCEPT ![t].pc = "loopchk"]
  /\ UNCHANGED <<mac, eng, ctl, others>>

\* except Exception (outer): self.state = ERROR
Fatal(t) ==
  /\ thr[t].pc = "fatal"
  /\ mac' = SetState(mac, thr[t].macro, "error", "fatal")
  /\ thr' = [thr EXCEPT ![t].pc = "teardown"]
  /\ UNCHANGED <<eng, ctl, others>>

\* a faulty finally block: an exception of teardown() leaves run() at once
AfterTeardownEscapes(raised) == IF raised THEN "run_exit" ELSE "finalchk"

\* where run() continues after teardown(), which raised or not
AfterTeardown(raised) == "finalchk"

\* finally: try: self.teardown() except Exception: pass
Teardown(t) ==
  /\ thr[t].pc = "teardown"
  /\ \E raised \in BOOLEAN :
       thr' = [thr EXCEPT ![t].pc = AfterTeardown(raised), ![t].tear = @ + 1]
  /\ UNCHANGED <<mac, eng, ctl, others>>

\* if self._state != ERROR:
FinalChk(t) ==
  /\ thr[t].pc = "finalchk"
  /\ thr' = [thr EXCEPT ![t].pc =
       IF mac[thr[t].macro].state # "error" THEN "finalset" ELSE "run_exit"]
  /\ UNCHANGED <<mac, eng, ctl, others>>

\* self.state = STOPPED
FinalSet(t) ==
  /\ thr[t].pc = "finalset"
  /\ mac' = SetState(mac, thr[t].macro, "stopped", "final")
  /\ thr' = [thr EXCEPT ![t].pc = "run_exit"]
  /\ UNCHANGED <<eng, ctl, others>>

\* _run_macro, finally: on_macro_stopped; the thread ends
RunExit(t) ==
  /\ thr[t].kind = "run" /\ thr[t].pc = "run_exit"
  /\ thr' = [thr EXCEPT ![t].pc = "done"]
  /\ UNCHANGED <<mac, eng, ctl, others>>

\* the steps of run(), shared by a run thread and a queue thread
RunStep(t, cap) ==
  \/ RunStart(t) \/ Setup(t) \/ LoopChk(t, cap) \/ BuiltinLoop(t) \/ LoopWrap(t)
  \/ Exec(t) \/ ExecRaise(t) \/ FlowStep(t) \/ RetrySleep(t) \/ OnError(t)
  \/ Cooldown(t) \/ PauseChk(t) \/ Fatal(t) \/ Teardown(t) \/ FinalChk(t)
  \/ FinalSet(t)

(* ------------------------------------------------- the engine's callers *)

\* MacroEngine.is_running
IsRunning ==
  /\ eng.current_macro # 0
  /\ mac[eng.current_macro].state \in {"running", "paused"}

\* the test that opens start() and start_script()
StartMustStop ==
  /\ eng.current_macro # 0
  /\ mac[eng.current_macro].state = "running"

\* the worker a starting call finds active: the queue thread while it lives,
\* the run thread while its macro is RUNNING or PAUSED (0: none)
PriorWorker ==
  LET t == eng.thread IN
    IF t = 0 THEN 0
    ELSE IF ~Alive(t) THEN 0
    ELSE IF thr[t].kind = "queue" THEN t
    ELSE IF IsRunning /\ thr[t].macro = eng.current_macro THEN t
    ELSE 0

\* the control thread is back in its event loop
Return == ctl' = [IdleCtl EXCEPT !.calls = ctl.calls, !.halted = ctl.halted]

\* the control thread moves on to p inside a call, or back to its event loop
At(p) ==
  IF p = "idle" THEN [IdleCtl EXCEPT !.calls = ctl.calls, !.halted = ctl.halted]
  ELSE [ctl EXCEPT !.pc = p]

\* the control thread issues a call: it is in its event loop (and the model's
\* budget of calls is not used up)
Issue == ctl.pc = "idle" /\ ctl.calls < MaxCalls

\* the locals of a call that has just been issued
Called == [IdleCtl EXCEPT !.calls = ctl.calls + 1, !.halted = ctl.halted]

\* MacroEngine.pause with BaseMacro.pause: the test, then the write
PauseCall ==
  /\ Issue \/ ctl.pc = "pause_chk"
  /\ LET c == IF ctl.pc = "idle" THEN Called ELSE ctl IN
       ctl' = IF eng.current_macro # 0 /\ mac[eng.current_macro].state = "running"
              THEN [c EXCEPT !.pc = "pause_set", !.target = eng.current_macro]
              ELSE [c EXCEPT !.pc = "idle"]
  /\ UNCHANGED <<mac, thr, eng, others>>

PauseSet ==
  /\ ctl.pc = "pause_set"
  /\ mac' = SetState(mac, ctl.target, "paused", "pause")
  /\ Return
  /\ UNCHANGED <<thr, eng, others>>

\* MacroEngine.resume with BaseMacro.resume: the test, then the write
ResumeCall ==
  /\ Issue \/ ctl.pc = "resume_chk"
  /\ LET c == IF ctl.pc = "idle" THEN Called ELSE ctl IN
       ctl' = IF eng.current_macro # 0 /\ mac[eng.current_macro].state = "paused"
              THEN [c EXCEPT !.pc = "resume_set", !.target = eng.current_macro]
              ELSE [c EXCEPT !.pc = "idle"]
  /\ UNCHANGED <<mac, thr, eng, others>>

ResumeSet ==
  /\ ctl.pc = "resume_set"
  /\ mac' = SetState(mac, ctl.target, "running", "resume")
  /\ Return
  /\ UNCHANGED <<thr, eng, others>>

\* MacroEngine.toggle_pause: reads the state, then calls pause() or resume()
TogglePause ==
  /\ Issue
  /\ eng.current_macro # 0
  /\ mac[eng.current_macro].state \in {"running", "paused"}
  /\ ctl' = [Called EXCEPT !.pc =
       IF mac[eng.current_macro].state = "running" THEN "pause_chk" ELSE "resume_chk"]
  /\ UNCHANGED <<mac, thr, eng, others>>

\* MacroEngine.stop, the test (also reached from start, start_script,
\* start_queue and, without the join, from stop_queue)
StopCall ==
  /\ Issue
  /\ IsRunning
  /\ ctl' = [Called EXCEPT !.pc = "stop_set", !.join = TRUE, !.halted = TRUE]
  /\ UNCHANGED <<mac, thr, eng, others>>

\* MacroEngine.stop called once start() has returned and before the worker
\* has set RUNNING: the state is IDLE, the test fails and stop() returns
StopIdle ==
  /\ Issue
  /\ eng.current_macro # 0 /\ mac[eng.current_macro].state = "idle"
  /\ eng.thread # 0 /\ Alive(eng.thread)
  /\ mac' = [mac EXCEPT ![eng.current_macro].stopMissed = TRUE]
  /\ ctl' = Called
  /\ UNCHANGED <<thr, eng, others>>

StopChk ==
  /\ ctl.pc = "stop_chk"
  /\ ctl' = At(IF IsRunning THEN "stop_set" ELSE ctl.ret)
  /\ UNCHANGED <<mac, thr, eng, others>>

\* self._current_macro.stop(): _current_macro is read again; None raises
StopSet ==
  /\ ctl.pc = "stop_set"
  /\ IF eng.current_macro = 0
     THEN /\ Return
          /\ mac' = mac
     ELSE /\ mac' = BaseStop(mac, eng.current_macro, "stop")
          /\ ctl' = At(IF ctl.join THEN "stop_join" ELSE ctl.ret)
  /\ UNCHANGED <<thr, eng, others>>

\* a thread that can stay where it is for longer than the join waits: in a
\* script step (a wait, a wait-for-template, a device command), in the
\* retry_delay sleep, or spinning in PAUSED
Blocking(t) ==
  \/ thr[t].pc = "loop" /\ ~IsBuiltin(thr[t].macro)
  \/ thr[t].pc = "retry_sleep"
  \/ thr[t].pc = "pausechk" /\ mac[thr[t].macro].state = "paused"

\* whether stop() may go on past its join of thread t
JoinDone(t) == t = 0 \/ ~Alive(t) \/ Blocking(t)

\* if self._thread and self._thread.is_alive(): self._thread.join(timeout=5)
StopJoin ==
  /\ ctl.pc = "stop_join"
  /\ JoinDone(eng.thread)
  /\ ctl' = At(ctl.ret)
  /\ UNCHANGED <<mac, thr, eng, others>>

\* MacroEngine.start (s = Builtin) and start_script: the opening test
StartCall(s) ==
  /\ Issue
  /\ FreeMacros # {} /\ FreeThreads # {}
  /\ ctl' = [Called EXCEPT !.pc = IF StartMustStop THEN "stop_chk" ELSE "start_new",
                            !.ret = "start_new", !.join = TRUE, !.arg = s,
                            !.prior = PriorWorker, !.halted = @ \/ StartMustStop]
  /\ UNCHANGED <<mac, thr, eng, others>>

\* ... the macro is constructed and made current, the thread is started
StartNew ==
  /\ ctl.pc = "start_new"
  /\ FreeMacros # {} /\ FreeThreads # {}
  /\ LET m == FirstOf(FreeMacros)
         t == FirstOf(FreeThreads)
     IN /\ mac' = [mac EXCEPT ![m] = NewMacro(ctl.arg)]
        /\ thr' = [thr EXCEPT ![t] = [NoThread EXCEPT !.kind = "run", !.pc = "spawned",
                                                      !.after = ctl.prior]]
        /\ eng' = [eng EXCEPT !.current_macro = m, !.thread = t]
  /\ Return
  /\ UNCHANGED others

\* start() / start_script() after self._thread.start(): the on_macro_started
\* callback is invoked, then the call returns
StartNotify ==
  /\ ctl.pc = "start_notify"
  /\ Return
  /\ UNCHANGED <<mac, thr, eng, others>>

(* ------------------------------------------------------------ the queue *)

\* a queue item: the script its path holds, whether it loads, its repeats
Item(s, loads, n) == [script |-> s, loads |-> loads, repeats |-> n]

\* the queues handed to start_queue
QueueLib ==
  << << Item(5, TRUE, 2), Item(5, FALSE, 1), Item(1, TRUE, 1) >>,
     << Item(6, TRUE, 1) >>,
     << Item(5, TRUE, 2) >>,
     << Item(5, FALSE, 1), Item(1, TRUE, 2) >> >>

QueueIds == 1..Len(QueueLib)

\* start_queue: the opening test
StartQueueCall(q, n) ==
  /\ Issue
  /\ FreeThreads # {}
  /\ ctl' = [Called EXCEPT !.pc = IF IsRunning THEN "stop_chk" ELSE "queue_new",
                            !.ret = "queue_new", !.join = TRUE, !.arg = q, !.arg2 = n,
                            !.prior = PriorWorker, !.halted = @ \/ IsRunning]
  /\ UNCHANGED <<mac, thr, eng, others>>

\* ... _queue_stop = False, the queue thread is started
QueueNew ==
  /\ ctl.pc = "queue_new"
  /\ FreeThreads # {}
  /\ LET t == FirstOf(FreeThreads) IN
       /\ thr' = [thr EXCEPT ![t] = [NoThread EXCEPT !.kind = "queue", !.pc = "q_round",
                                       !.queue = ctl.arg, !.total = ctl.arg2,
                                       !.after = ctl.prior]]
       /\ eng' = [eng EXCEPT !.queue_stop = FALSE, !.thread = t]
  /\ UNCHANGED <<mac, others>>
  /\ Return

\* stop_queue: _queue_stop = True, then the test and the stop of stop()
StopQueueCall ==
  /\ Issue
  /\ eng' = [eng EXCEPT !.queue_stop = TRUE]
  /\ ctl' = [Called EXCEPT !.pc = "stop_chk", !.join = FALSE, !.halted = TRUE]
  /\ UNCHANGED <<mac, thr, others>>

\* a faulty round loop: the queue is run once whatever total_repeats is
RoundsOverEarly(round, total, stop) == round >= 1 \/ stop

\* whether the loop over the rounds is left: range(total_repeats) is used up
\* or _queue_stop is set
RoundsOver(round, total, stop) == round >= total \/ stop

\* _run_queue: for queue_round in range(total_repeats): if _queue_stop: break
QRound(t) ==
  /\ thr[t].pc = "q_round"
  /\ thr' = [thr EXCEPT
       ![t].pc = IF RoundsOver(thr[t].round, thr[t].total, eng.queue_stop)
                 THEN "q_end" ELSE "q_item",
       ![t].idx = 0]
  /\ UNCHANGED <<mac, eng, ctl, others>>

\* a faulty handler: a script that fails to load ends the queue
LoadFailedEnds(th) == [th EXCEPT !.pc = "q_end"]

\* except Exception (MacroScript.load): log, continue
LoadFailed(th) == [th EXCEPT !.idx = @ + 1]

\* for idx, item in enumerate(queue_items): if _queue_stop: break;
\* MacroScript.load, a failure skips the item
QItem(t) ==
  /\ thr[t].pc = "q_item"
  /\ LET items == QueueLib[thr[t].queue] IN
       thr' = IF thr[t].idx >= Len(items) \/ eng.queue_stop
              THEN [thr EXCEPT ![t].pc = "q_round", ![t].round = @ + 1]
              ELSE IF items[thr[t].idx + 1].loads
              THEN [thr EXCEPT ![t].pc = "q_rep", ![t].rep = 0]
              ELSE [thr EXCEPT ![t] = LoadFailed(thr[t])]
  /\ UNCHANGED <<mac, eng, ctl, others>>

\* for rep in range(repeats): if _queue_stop: break; a new ScriptMacro is
\* constructed and made current
QRep(t) ==
  /\ thr[t].pc = "q_rep"
  /\ LET item == QueueLib[thr[t].queue][thr[t].idx + 1] IN
       IF thr[t].rep >= item.repeats \/ eng.queue_stop
       THEN /\ thr' = [thr EXCEPT ![t].pc = "q_item", ![t].idx = @ + 1]
            /\ UNCHANGED <<mac, eng, others>>
       ELSE /\ FreeMacros # {}
            /\ LET m == FirstOf(FreeMacros) IN
                 /\ mac' = [mac EXCEPT ![m] = NewMacro(item.script)]
                 /\ eng' = [eng EXCEPT !.current_macro = m]
                 /\ thr' = [thr EXCEPT ![t].pc = "run_start", ![t].macro = m,
                                       ![t].runs = @ + 1,
                                       ![t].lastrun = <<thr[t].round + 1, thr[t].idx + 1,
                                                        thr[t].rep + 1>>]
  /\ UNCHANGED <<ctl, others>>

\* after macro.run(): if not self._queue_stop: time.sleep(1.0)
QAfterRun(t) ==
  /\ thr[t].kind = "queue" /\ thr[t].pc = "run_exit"
  /\ thr' = [thr EXCEPT ![t].pc = IF eng.queue_stop THEN "q_rep" ELSE "q_gap",
                        ![t].rep = IF eng.queue_stop THEN @ + 1 ELSE @]
  /\ UNCHANGED <<mac, eng, ctl, others>>

QGap(t) ==
  /\ thr[t].pc = "q_gap"
  /\ thr' = [thr EXCEPT ![t].pc = "q_rep", ![t].rep = @ + 1]
  /\ UNCHANGED <<mac, eng, ctl, others>>

\* self._current_macro = None; on_queue_done()
QEnd(t) ==
  /\ thr[t].pc = "q_end"
  /\ eng' = [eng EXCEPT !.current_macro = 0]
  /\ thr' = [thr EXCEPT ![t].pc = "done"]
  /\ UNCHANGED <<mac, ctl, others>>

(* ------------------------------------------------- the BackgroundWorker *)

BgThread == 1..MaxBgThreads

\* a BackgroundAction: the fields _worker_loop reads, and whether executing
\* it can raise (a device command failing)
Action(en, iv, jit, bad) ==
  [enabled |-> en, interval |-> iv, interval_jitter |-> jit, raises |-> bad]

\* the action lists handed to the worker
ActionLib ==
  << << Action(TRUE, 2, 1, TRUE), Action(TRUE, 3, 0, FALSE) >>,
     << Action(TRUE, 2, 0, FALSE), Action(FALSE, 2, 0, FALSE) >> >>

ActionIds == 1..Len(ActionLib)
MaxActions == 2

\* the actions of list a (0: the empty BackgroundActionSet of __init__)
Actions(a) == IF a = 0 THEN << >> ELSE ActionLib[a]

\* a worker thread that was not started
NoBgThread ==
  [pc |-> "none", now |-> 0, snap |-> 0, gen |-> 0, pos |-> 0,
   \* observations: the entries executed and the entries that raised in this
   \* tick, whether this thread has waited in a paused poll
   fired |-> {}, failed |-> {}, waited |-> FALSE]

\* the BackgroundWorker after construction
NoWorker ==
  [running |-> FALSE, paused |-> FALSE,
   set |-> 0,                               \* _action_set.actions
   last |-> [i \in 1..MaxActions |-> 0],    \* _last_exec.get(i, 0.0)
   w |-> [b \in BgThread |-> NoBgThread],   \* the threads started
   thread |-> 0,                            \* _thread: the thread started last
   join |-> 0,                              \* the thread stop() is joining
   clock |-> Epoch,                         \* time.time()
   calls |-> 0,                             \* calls made so far (an observation)
   gen |-> 0,                               \* replacements of the action list so far
   swapGen |-> 0,                           \* the last of them made through the setter
   replacedAt |-> 0,                        \* time of the last one while running (0: none)
   \* the BackgroundActionSet object _action_set refers to: 0 is the worker's
   \* own, made by __init__; a > 0 is an object handed through the setter,
   \* whose actions were list a when it was handed
   given |-> 0,
   \* an observation: when each entry of the current list was last executed
   \* with success (0: not yet)
   firedAt |-> [i \in 1..MaxActions |-> 0]]

BgAlive(b) == bg.w[b].pc \notin {"none", "done"}
FreeBgThreads == {b \in BgThread : bg.w[b].pc = "none"}

\* the caller of the worker's methods is in its event loop
BgIssue == bg.join = 0 /\ bg.calls < MaxBgCalls

\* time passes
BgTick ==
  /\ bg.clock < MaxClock
  /\ bg' = [bg EXCEPT !.clock = @ + 1]
  /\ UNCHANGED <<engine, adb, units>>

\* BackgroundWorker.start
BgStart ==
  /\ BgIssue
  /\ ~bg.running
  /\ \E i \in 1..Len(Actions(bg.set)) : Actions(bg.set)[i].enabled
  /\ FreeBgThreads # {}
  /\ LET b == FirstOf(FreeBgThreads) IN
       bg' = [bg EXCEPT !.running = TRUE, !.paused = FALSE,
                        !.last = [i \in 1..MaxActions |-> 0],
                        !.w[b] = [NoBgThread EXCEPT !.pc = "top"],
                        !.thread = b,
                        !.replacedAt = 0,
                        !.calls = @ + 1]
  /\ UNCHANGED <<engine, adb, units>>

\* BackgroundWorker.stop: _running = False, then the join
BgStop ==
  /\ BgIssue
  /\ bg.running
  /\ bg' = [bg EXCEPT !.running = FALSE,
                      !.join = IF bg.thread # 0 /\ BgAlive(bg.thread) THEN bg.thread ELSE 0,
                      !.calls = @ + 1]
  /\ UNCHANGED <<engine, adb, units>>

\* _thread.join(timeout=5): returns when the thread has ended, or after 5 s
\* with the thread still executing an action
BgJoin ==
  /\ bg.join # 0
  /\ ~BgAlive(bg.join) \/ bg.w[bg.join].pc = "exec"
  /\ bg' = [bg EXCEPT !.join = 0]
  /\ UNCHANGED <<engine, adb, units>>

\* BackgroundWorker.pause / resume
BgPause ==
  /\ BgIssue
  /\ bg' = [bg EXCEPT !.paused = TRUE, !.calls = @ + 1]
  /\ UNCHANGED <<engine, adb, units>>

BgResume ==
  /\ BgIssue
  /\ bg' = [bg EXCEPT !.paused = FALSE, !.calls = @ + 1]
  /\ UNCHANGED <<engine, adb, units>>

\* the action_set setter, handed a BackgroundActionSet whose actions are list
\* a: _action_set refers to that object, _last_exec is cleared
BgReplace(a) ==
  /\ BgIssue
  /\ bg' = [bg EXCEPT !.set = a,
                      !.given = a,
                      !.swapGen = bg.gen + 1,
                      !.firedAt = [i \in 1..MaxActions |-> 0],
                      !.last = [i \in 1..MaxActions |-> 0],
                      !.gen = @ + 1,
                      !.replacedAt = IF bg.running THEN bg.clock ELSE 0,
                      !.calls = @ + 1]
  /\ UNCHANGED <<engine, adb, units>>

\* set_actions: the actions attribute of the object _action_set refers to is
\* assigned the new list, the times are kept by index
BgSetActions(a) ==
  /\ BgIssue
  /\ bg' = [bg EXCEPT !.set = a,
                      !.firedAt = [i \in 1..MaxActions |-> 0],
                      !.last = [i \in 1..MaxActions |->
                                  IF i <= Len(Actions(a)) THEN bg.last[i] ELSE 0],
                      !.gen = @ + 1,
                      !.replacedAt = IF bg.running THEN bg.clock ELSE 0,
                      !.calls = @ + 1]
  /\ UNCHANGED <<engine, adb, units>>

\* a faulty loop head: the pause flag is not looked at
TopIgnoresPause(running, paused) == IF ~running THEN "done" ELSE "snap"

\* where the loop goes from its head, given the two flags it reads
TopTarget(running, paused) ==
  IF ~running THEN "done" ELSE IF paused THEN "pause_sleep" ELSE "snap"

\* while self._running: if self._paused: ...; now = time.time()
BgTop(b) ==
  /\ bg.w[b].pc = "top"
  /\ bg' = [bg EXCEPT !.w[b].pc = TopTarget(bg.running, bg.paused),
                      !.w[b].now = bg.clock,
                      !.w[b].fired = {}, !.w[b].failed = {}]
  /\ UNCHANGED <<engine, adb, units>>

\* time.sleep(0.2); continue
BgPauseSleep(b) ==
  /\ bg.w[b].pc = "pause_sleep"
  /\ bg' = [bg EXCEPT !.w[b].pc = "top", !.w[b].waited = TRUE]
  /\ UNCHANGED <<engine, adb, units>>

\* with self._lock: actions_snapshot = list(enumerate(actions))
BgSnap(b) ==
  /\ bg.w[b].pc = "snap"
  /\ bg' = [bg EXCEPT !.w[b].pc = "entry", !.w[b].snap = bg.set,
                      !.w[b].gen = bg.gen, !.w[b].pos = 1]
  /\ UNCHANGED <<engine, adb, units>>

\* whether an entry is due: now >= last + interval + jitter
Due(now, last, a, jitter) == now >= last + a.interval + jitter

\* one entry of the snapshot: left when the worker is stopped, skipped when
\* disabled or not due
BgEntry(b) ==
  /\ bg.w[b].pc = "entry"
  /\ LET acts == Actions(bg.w[b].snap)
         i == bg.w[b].pos
     IN IF i > Len(acts) \/ ~bg.running
        THEN bg' = [bg EXCEPT !.w[b].pc = "tick_sleep"]
        ELSE IF ~acts[i].enabled
        THEN bg' = [bg EXCEPT !.w[b].pos = i + 1]
        ELSE \E jitter \in (0 - acts[i].interval_jitter)..acts[i].interval_jitter :
               bg' = IF Due(bg.w[b].now, bg.last[i], acts[i], jitter)
                     THEN [bg EXCEPT !.w[b].pc = "exec"]
                     ELSE [bg EXCEPT !.w[b].pos = i + 1]
  /\ UNCHANGED <<engine, adb, units>>

\* a faulty loop: the exception of an entry ends the tick
AfterExecBreaks(raised, pos) ==
  IF raised THEN [pc |-> "tick_sleep", pos |-> pos] ELSE [pc |-> "entry", pos |-> pos + 1]

\* where the loop goes after _execute_action returned or raised
AfterExec(raised, pos) == [pc |-> "entry", pos |-> pos + 1]

\* try: _execute_action; _last_exec[idx] = time.time() / except Exception
BgExec(b) ==
  /\ bg.w[b].pc = "exec"
  /\ LET i == bg.w[b].pos
         a == Actions(bg.w[b].snap)[i]
     IN \E raised \in IF a.raises THEN BOOLEAN ELSE {FALSE} :
          LET to == AfterExec(raised, i) IN
            bg' = IF raised
                  THEN [bg EXCEPT !.w[b].pc = to.pc, !.w[b].pos = to.pos,
                                  !.w[b].failed = @ \cup {i}]
                  ELSE [bg EXCEPT !.w[b].pc = to.pc, !.w[b].pos = to.pos,
                                  !.w[b].fired = @ \cup {i},
                                  !.last[i] = bg.clock,
                                  !.firedAt[i] = IF bg.w[b].gen = bg.gen
                                                 THEN bg.clock ELSE @]
  /\ UNCHANGED <<engine, adb, units>>

\* time.sleep(0.1)
BgTickSleep(b) ==
  /\ bg.w[b].pc = "tick_sleep"
  /\ bg' = [bg EXCEPT !.w[b].pc = "top"]
  /\ UNCHANGED <<engine, adb, units>>

(* ------------------------------------------------------------ ADB shell *)

\* the largest retries argument and the number of _run_shell calls
MaxRetries == 3
MaxShellCalls == 2

\* no _run_shell call has been made
NoCall ==
  [pc |-> "none", retries |-> 0, attempt |-> 0,
   result |-> "none",        \* the CompletedProcess of the last attempt: "ok", "fail"
   \* observations: the calls made, and in this call the shell commands run,
   \* the ones that came back failed, the disconnects and the connects
   calls |-> 0, execs |-> 0, fails |-> 0, disc |-> 0, conn |-> 0]

\* what subprocess.run can do in _run_adb: complete with status 0 and a clean
\* stderr, complete otherwise, or time out (TimeoutExpired is raised again)
AdbOutcomes == {"ok", "fail", "raise"}

\* a caller invokes _run_shell(cmd, retries=r)
ShellCall(r) ==
  /\ adb.pc \in {"none", "returned", "raised"}
  /\ adb.calls < MaxShellCalls
  /\ adb' = [NoCall EXCEPT !.pc = "attempt", !.retries = r, !.calls = adb.calls + 1]
  /\ UNCHANGED <<engine, bg, units>>

\* if attempt < retries: reconnect; else: log; (the loop ends) return result
AfterFailure(attempt, retries) == IF attempt < retries THEN "disconnect" ELSE "returned"

\* result = self._run_adb_device("shell", ...); success returns at once
ShellAttempt ==
  /\ adb.pc = "attempt"
  /\ \E o \in AdbOutcomes :
       adb' = IF o = "raise"
              THEN [adb EXCEPT !.pc = "raised", !.execs = @ + 1]
              ELSE IF o = "ok"
              THEN [adb EXCEPT !.pc = "returned", !.result = "ok", !.execs = @ + 1]
              ELSE [adb EXCEPT !.pc = AfterFailure(adb.attempt, adb.retries),
                               !.result = "fail", !.execs = @ + 1, !.fails = @ + 1]
  /\ UNCHANGED <<engine, bg, units>>

\* self._run_adb("disconnect", target); time.sleep(0.5): the result is not
\* looked at
ShellDisconnect ==
  /\ adb.pc = "disconnect"
  /\ \E o \in AdbOutcomes :
       adb' = IF o = "raise" THEN [adb EXCEPT !.pc = "raised", !.disc = @ + 1]
              ELSE [adb EXCEPT !.pc = "connect", !.disc = @ + 1]
  /\ UNCHANGED <<engine, bg, units>>

\* self._run_adb("connect", target, timeout=5); time.sleep(0.5); the next
\* attempt of the loop
ShellConnect ==
  /\ adb.pc = "connect"
  /\ \E o \in AdbOutcomes :
       adb' = IF o = "raise" THEN [adb EXCEPT !.pc = "raised", !.conn = @ + 1]
              ELSE [adb EXCEPT !.pc = "attempt", !.attempt = @ + 1, !.conn = @ + 1]
  /\ UNCHANGED <<engine, bg, units>>

(* ------------------------------------------------------- the components *)

(* Python floats are IEEE 754 doubles.  A number is held as a sequence of
   binary digits m (most significant first) and an exponent: m * 2^exp. *)

\* the digits of a double's significand
Mantissa == 53
\* digits computed after the point before a quotient is rounded
FracDigits == 70

\* the digits of an integer arithmetic is done on at a time
Chunk == 18

\* the w low digits of v
Bits(v, w) == [i \in 1..w |-> (v \div 2 ^ (w - i)) % 2]

\* the digits of n < 2^30
ToBits(n) ==
  Bits(n, CHOOSE k \in 0..30 : 2 ^ k > n /\ (k = 0 \/ 2 ^ (k - 1) <= n))

\* the integer of at most 30 digits
RECURSIVE FromBits(_)
FromBits(b) ==
  IF Len(b) = 0 THEN 0
  ELSE IF Len(b) = 1 THEN b[1]
  ELSE LET h == Len(b) \div 2
       IN FromBits(SubSeq(b, 1, h)) * 2 ^ (Len(b) - h) + FromBits(SubSeq(b, h + 1, Len(b)))

\* 2^k modulo d
RECURSIVE Pow2Mod(_, _)
Pow2Mod(k, d) ==
  IF k = 0 THEN 1 % d
  ELSE LET h == Pow2Mod(k \div 2, d)
       IN (((h * h) % d) * (IF k % 2 = 1 THEN 2 ELSE 1)) % d

\* k digits of r / d after the point (r < d), and what is left of r: long
\* division, the remainder after i digits being r * 2^i modulo d
FracBits(r, d, k) ==
  [bits |-> [i \in 1..k |-> (2 * ((r * Pow2Mod(i - 1, d)) % d)) \div d],
   rem |-> (r * Pow2Mod(k, d)) % d]

\* b without its leading zeros
Strip(b) ==
  LET ones == {i \in 1..Len(b) : b[i] = 1} IN
    IF ones = {} THEN << >>
    ELSE SubSeq(b, CHOOSE i \in ones : \A j \in ones : i <= j, Len(b))

\* b + 1
Incr(b) ==
  LET zeros == {i \in 1..Len(b) : b[i] = 0} IN
    IF zeros = {} THEN <<1>> \o [i \in 1..Len(b) |-> 0]
    ELSE LET z == CHOOSE i \in zeros : \A j \in zeros : i >= j
         IN [i \in 1..Len(b) |-> IF i < z THEN b[i] ELSE IF i = z THEN 1 ELSE 0]

\* b * x for digits b (at most 3 chunks) and an integer x < 2^12
MulSmall(b, x) ==
  LET n == 3 * Chunk
      pad == [i \in 1..n |-> IF i <= n - Len(b) THEN 0 ELSE b[i - (n - Len(b))]]
      lo == FromBits(SubSeq(pad, 2 * Chunk + 1, n)) * x
      mid == FromBits(SubSeq(pad, Chunk + 1, 2 * Chunk)) * x + lo \div 2 ^ Chunk
      hi == FromBits(SubSeq(pad, 1, Chunk)) * x + mid \div 2 ^ Chunk
  IN ToBits(hi) \o Bits(mid % 2 ^ Chunk, Chunk) \o Bits(lo % 2 ^ Chunk, Chunk)

\* round to nearest, ties to even: m * 2^exp (and a little more, if sticky)
\* becomes a double
RoundDouble(m, exp, sticky) ==
  IF Len(m) <= Mantissa THEN [m |-> m, exp |-> exp]
  ELSE LET keep == SubSeq(m, 1, Mantissa)
           more == sticky \/ \E i \in (Mantissa + 2)..Len(m) : m[i] = 1
           up == m[Mantissa + 1] = 1 /\ (more \/ keep[Mantissa] = 1)
       IN [m |-> IF up THEN Incr(keep) ELSE keep, exp |-> exp + Len(m) - Mantissa]

\* the float n / d of two positive ints
Divide(n, d) ==
  LET f == FracBits(n % d, d, FracDigits)
  IN RoundDouble(Strip(ToBits(n \div d) \o f.bits), 0 - FracDigits, f.rem # 0)

\* the float x * v of an int x >= 0 and a float v
MulInt(x, v) == RoundDouble(Strip(MulSmall(v.m, x)), v.exp, FALSE)

\* int(v) of a float v >= 0 below 2^31
Trunc(v) ==
  IF v.exp >= 0 THEN FromBits(v.m \o [i \in 1..v.exp |-> 0])
  ELSE IF 0 - v.exp >= Len(v.m) THEN 0
  ELSE FromBits(SubSeq(v.m, 1, Len(v.m) + v.exp))

(* ADBController: connect, _fetch_screen_size, _calibrate_coordinates, tap,
   swipe *)

\* a size that was not obtained, a scale factor as the quotient it is
None == <<0, 0>>
Ratio(n, d) == [n |-> n, d |-> d]

\* the sizes `wm size` and the screenshot report, the points tapped
Sizes == {<<480, 854>>, <<854, 480>>}
Points == {<<427, 240>>, <<300, 100>>}

\* ADBController.__init__
NoDevice ==
  [connected |-> FALSE, screen_size |-> None, screenshot_size |-> None,
   coord_scale |-> <<Ratio(1, 1), Ratio(1, 1)>>,
   sent |-> [op |-> "none", at |-> << >>, out |-> << >>],   \* the last input command
   \* observations: the sizes the last connect obtained, whether a scale was
   \* ever computed
   wm |-> None, ss |-> None, calibrated |-> FALSE]

\* connect(): on success _fetch_screen_size and _calibrate_coordinates; wm is
\* what `wm size` gave and ss the size of the screenshot (None: not obtained)
DevConnect(ok, wm, ss) ==
  /\ dev' =
       IF ~ok THEN [dev EXCEPT !.connected = FALSE]
       ELSE LET size == IF wm # None THEN wm ELSE dev.screen_size
                scaled == ss # None /\ size # None
            IN [dev EXCEPT
                  !.connected = TRUE,
                  !.screen_size = size,
                  !.screenshot_size = IF ss # None THEN ss ELSE @,
                  !.coord_scale = IF scaled
                                  THEN <<Ratio(size[1], ss[1]), Ratio(size[2], ss[2])>>
                                  ELSE @,
                  !.wm = wm, !.ss = ss,
                  !.calibrated = @ \/ scaled]
  /\ UNCHANGED <<engine, bg, adb, scr, inp, hum, img>>

\* disconnect()
DevDisconnect ==
  /\ dev.connected
  /\ dev' = [dev EXCEPT !.connected = FALSE]
  /\ UNCHANGED <<engine, bg, adb, scr, inp, hum, img>>

\* _scale_coords: int(x * sx), int(y * sy)
ScaleCoords(scale, p) ==
  <<Trunc(MulInt(p[1], Divide(scale[1].n, scale[1].d))),
    Trunc(MulInt(p[2], Divide(scale[2].n, scale[2].d)))>>

\* tap(x, y): the command sent
Tap(p) ==
  [op |-> "tap", at |-> <<p>>, out |-> <<ScaleCoords(dev.coord_scale, p)>>]

\* swipe(x1, y1, x2, y2): the command sent
Swipe(p, q) ==
  [op |-> "swipe", at |-> <<p, q>>,
   out |-> <<ScaleCoords(dev.coord_scale, p), ScaleCoords(dev.coord_scale, q)>>]

DevTap(p) ==
  /\ dev' = [dev EXCEPT !.sent = Tap(p)]
  /\ UNCHANGED <<engine, bg, adb, scr, inp, hum, img>>

DevSwipe(p, q) ==
  /\ dev' = [dev EXCEPT !.sent = Swipe(p, q)]
  /\ UNCHANGED <<engine, bg, adb, scr, inp, hum, img>>
(* ScreenCapture: capture, invalidate_cache.  The macro thread, the
   scheduler thread and the UI share one ScreenCapture, and capture takes no
   lock: its test of the cache and its return or write are separate steps. *)

\* threads calling capture, frames decoded in one behaviour, cache_ttl_ms
\* in ticks of the clock
MaxCapturers == 2
MaxFrames == 3
CacheTtl == 2

Capturer == 1..MaxCapturers

\* a thread that is not inside capture()
NoCapture ==
  [pc |-> "idle", force |-> FALSE, now |-> 0,
   \* observations: the cache as the call found it (frame, age), whether the
   \* call went to the device and how that ended, what it returned, the
   \* cache as it was when the call returned
   frame0 |-> 0, age0 |-> 0, trip |-> FALSE, outcome |-> "none", ret |-> 0,
   frame1 |-> 0, time1 |-> 0,
   got |-> 0,                \* the frame decoded by this call (a local)
   req |-> 0]                \* an observation: when the frame it decoded or
                             \* took from the cache was requested from the device

\* ScreenCapture.__init__ (frame 0: None)
NoScreen ==
  [frame |-> 0, time |-> 0, clock |-> Epoch, frames |-> 0,
   c |-> [k \in Capturer |-> NoCapture],
   \* an observation: when the cached frame was requested from the device
   frameReq |-> 0]

\* time passes
ScrTick ==
  /\ scr.clock < MaxClock
  /\ scr' = [scr EXCEPT !.clock = @ + 1]
  /\ UNCHANGED <<engine, bg, adb, dev, inp, hum, img>>

\* a faulty test: force is not looked at
CacheFreshForced(force, frame, age) == frame # 0 /\ age < CacheTtl

\* if not force and self._last_capture is not None: elapsed < cache_ttl_ms
CacheFresh(force, frame, age) == ~force /\ frame # 0 /\ age < CacheTtl

\* capture(force): now = time.time() * 1000 and the test of the cache
CapBegin(k, force) ==
  /\ scr.c[k].pc \in {"idle", "ret"}
  /\ LET age == scr.clock - scr.time IN
       scr' = [scr EXCEPT !.c[k] =
                 [NoCapture EXCEPT
                    !.pc = IF CacheFresh(force, scr.frame, age) THEN "hit" ELSE "trip",
                    !.force = force, !.now = scr.clock,
                    !.frame0 = scr.frame, !.age0 = age]]
  /\ UNCHANGED <<engine, bg, adb, dev, inp, hum, img>>

\* return self._last_capture (the cached frame)
CapHit(k) ==
  /\ scr.c[k].pc = "hit"
  /\ scr' = [scr EXCEPT !.c[k].pc = "ret", !.c[k].ret = scr.frame,
                        !.c[k].req = scr.frameReq,
                        !.c[k].frame1 = scr.frame, !.c[k].time1 = scr.time]
  /\ UNCHANGED <<engine, bg, adb, dev, inp, hum, img>>

\* a faulty handler: a failed capture returns None
OnFailureNone(frame) == 0

\* what capture returns when the screenshot or its decoding failed
OnFailure(frame) == frame

\* png_bytes = self.adb.screenshot_bytes() and the decoding: no bytes, bytes
\* that do not decode, or a frame
CapTrip(k, outcome) ==
  /\ scr.c[k].pc = "trip"
  /\ outcome = "ok" => scr.frames < MaxFrames
  /\ LET new == scr.frames + 1
         done == [scr.c[k] EXCEPT !.pc = "ret", !.trip = TRUE, !.outcome = outcome,
                                  !.frame1 = scr.frame, !.time1 = scr.time]
     IN scr' = IF outcome = "ok"
               THEN [scr EXCEPT !.frames = new,
                                !.c[k].pc = "store", !.c[k].trip = TRUE,
                                !.c[k].outcome = outcome, !.c[k].got = new,
                                !.c[k].req = scr.clock]
               ELSE [scr EXCEPT !.c[k] = [done EXCEPT !.ret = OnFailure(scr.frame)]]
  /\ UNCHANGED <<engine, bg, adb, dev, inp, hum, img>>

\* self._last_capture = frame (no lock is held)
CapStore(k) ==
  /\ scr.c[k].pc = "store"
  /\ scr' = [scr EXCEPT !.frame = scr.c[k].got, !.frameReq = scr.c[k].req,
                        !.c[k].pc = "stamp"]
  /\ UNCHANGED <<engine, bg, adb, dev, inp, hum, img>>

\* self._last_capture_time = now (the time read first); return frame
CapStamp(k) ==
  /\ scr.c[k].pc = "stamp"
  /\ scr' = [scr EXCEPT !.time = scr.c[k].now,
                        !.c[k].pc = "ret", !.c[k].ret = scr.c[k].got,
                        !.c[k].frame1 = scr.frame, !.c[k].time1 = scr.c[k].now]
  /\ UNCHANGED <<engine, bg, adb, dev, inp, hum, img>>

\* invalidate_cache(): it has no caller in the repository and is applied
\* while no capture is in progress
Invalidate ==
  /\ \A k \in Capturer : scr.c[k].pc \in {"idle", "ret"}
  /\ scr.frame # 0
  /\ scr' = [scr EXCEPT !.frame = 0, !.time = 0, !.frameReq = 0]
  /\ UNCHANGED <<engine, bg, adb, dev, inp, hum, img>>
(* Humanizer.humanize_coords *)

\* click_offset_range
ClickOffsetRange == 5

\* the values int(random.gauss(0, sigma)) is drawn from
MaxGauss == 4
Gauss == (0 - MaxGauss)..MaxGauss

\* Python's a // b for b > 0, max and min
FloorDiv(a, b) == IF a >= 0 THEN a \div b ELSE 0 - ((0 - a + b - 1) \div b)
Max(a, b) == IF a >= b THEN a ELSE b
Min(a, b) == IF a <= b THEN a ELSE b

\* offset = max(-r // 3, min(r // 3, offset)): -r // 3 is (-r) // 3
RegionClamp(r, g) == Max(FloorDiv(0 - r, 3), Min(FloorDiv(r, 3), g))

\* the offset of one axis: g is int(random.gauss(...)), r that axis' region size
Offset(g, r, inRegion, jitter) ==
  IF inRegion THEN RegionClamp(r, g)
  ELSE IF jitter THEN Max(0 - ClickOffsetRange, Min(ClickOffsetRange, g))
  ELSE 0

\* humanize_coords(x, y, region_w, region_h) with the two values drawn
HumanizeCoords(p, r, g, jitter) ==
  LET inRegion == r[1] > 4 /\ r[2] > 4 IN
    <<Max(0, p[1] + Offset(g[1], r[1], inRegion, jitter)),
      Max(0, p[2] + Offset(g[2], r[2], inRegion, jitter))>>

\* Humanizer.__init__ (no call of humanize_coords yet)
NoHuman ==
  [enable_jitter |-> TRUE, op |-> "none", at |-> <<0, 0>>, region |-> <<0, 0>>,
   to |-> <<0, 0>>]

\* a caller invokes humanize_coords
Humanize(p, r, g) ==
  /\ hum' = [hum EXCEPT !.op = "coords", !.at = p, !.region = r,
                        !.to = HumanizeCoords(p, r, g, hum.enable_jitter)]
  /\ UNCHANGED <<engine, bg, adb, dev, scr, inp, img>>

(* InputSimulator: click, click_match and their and-wait variants *)

\* clicks made in one behaviour
MaxClicks == 2
\* the values get_hold_duration_ms returns (min_hold_ms .. max_hold_ms), and
\* the hold above which a click is sent as a swipe
Holds == {50, 100}
LongHold == 80
\* the values int(random.gauss(...)) takes in the clicks
ClickGauss == {0 - 1, 2}

\* InputSimulator.__init__; MainWindow sets on_click later
NoInput ==
  [on_click |-> FALSE,       \* an observer is registered (main_window.py)
   clicks |-> 0,             \* clicks made (an observation)
   op |-> "none", to |-> <<0, 0>>,   \* the last click and the point it went to
   events |-> << >>]         \* the click events the observer was called with

\* self.input_sim.on_click = self._on_input_click
Register ==
  /\ ~inp.on_click
  /\ inp' = [inp EXCEPT !.on_click = TRUE]
  /\ UNCHANGED <<engine, bg, adb, dev, scr, hum, img>>

\* click / click_and_wait (region <<0, 0>>) and click_match /
\* click_match_and_wait (region: the size of the match): humanize_coords,
\* get_hold_duration_ms, then adb.swipe or adb.tap; on_click is never read
Click(op, p, r, humanize, g, hold) ==
  /\ inp.clicks < MaxClicks
  /\ LET q == IF humanize THEN HumanizeCoords(p, r, g, hum.enable_jitter) ELSE p IN
       /\ dev' = [dev EXCEPT !.sent = IF hold > LongHold THEN Swipe(q, q) ELSE Tap(q)]
       /\ inp' = [inp EXCEPT !.clicks = @ + 1, !.op = op, !.to = q]
  /\ UNCHANGED <<engine, bg, adb, scr, hum, img>>
(* ImageMatcher: find, _find_multi_scale, find_all.  A confidence or a
   threshold c stands for c / 20 (17: 0.85). *)

\* confidence_threshold as constructed
DefaultThreshold == 17

\* the thresholds passed (0: the float 0.0) and the confidences matchTemplate
\* reports
Thresholds == {0, 10, 18}
Confs == {5, 12, 19}

\* a frame and a template as find sees them: the best confidence at scale
\* 1.0 and at two of the other scale factors, in the order they are tried
Images == [c1 : Confs, ms : Confs \X Confs]

\* threshold = threshold or self.confidence_threshold
Effective(t) == IF t = 0 THEN DefaultThreshold ELSE t

\* _find_multi_scale: the match kept is the last scale that raised best_conf
\* and reached the threshold (0: none)
RECURSIVE MultiScale(_, _, _, _)
MultiScale(ms, threshold, best_conf, best_match) ==
  IF Len(ms) = 0 THEN best_match
  ELSE IF ms[1] > best_conf
  THEN MultiScale(Tail(ms), threshold, ms[1],
                  IF ms[1] >= threshold THEN ms[1] ELSE best_match)
  ELSE MultiScale(Tail(ms), threshold, best_conf, best_match)

\* find: the confidence of the match returned (0: None)
Find(image, t, multi_scale) ==
  LET threshold == Effective(t) IN
    IF image.c1 >= threshold THEN image.c1
    ELSE IF multi_scale THEN MultiScale(image.ms, threshold, 0, 0)
    ELSE 0

\* the places of the result matrix that can reach a threshold, in the order
\* np.where lists them (row by row), the template sizes (tw, th), the values
\* of max_results
Cells == << <<0, 0>>, <<1, 0>>, <<2, 0>>, <<0, 2>>, <<3, 3>> >>
Templates == {<<4, 4>>, <<3, 5>>}
MaxResults == {1, 2, 20}

\* a result matrix: the confidence at each of the cells
Matrices == [1..Len(Cells) -> {5, 17, 19}]

\* scored.sort(key=conf, reverse=True): stable, so equal confidences keep
\* the order of np.where; cells is a sequence of indexes into Cells
RECURSIVE SortDesc(_, _)
SortDesc(cells, mat) ==
  IF Len(cells) = 0 THEN << >>
  ELSE LET top == CHOOSE i \in 1..Len(cells) :
                    /\ \A j \in 1..Len(cells) : mat[cells[j]] <= mat[cells[i]]
                    /\ \A j \in 1..(i - 1) : mat[cells[j]] < mat[cells[i]]
       IN <<cells[top]>> \o
          SortDesc(SubSeq(cells, 1, top - 1) \o SubSeq(cells, top + 1, Len(cells)), mat)

Abs(a) == IF a < 0 THEN 0 - a ELSE a

\* a faulty filter: nothing is a duplicate
IsDuplicateNever(pt, e, tpl) == FALSE

\* dx < tw * 0.5 and dy < th * 0.5
IsDuplicate(pt, e, tpl) ==
  2 * Abs(pt[1] - e[1]) < tpl[1] /\ 2 * Abs(pt[2] - e[2]) < tpl[2]

\* the filtering loop of find_all over the sorted candidates
RECURSIVE Filter(_, _, _, _, _)
Filter(scored, filtered, mat, tpl, k) ==
  IF Len(scored) = 0 \/ Len(filtered) >= k THEN filtered
  ELSE LET pt == Cells[scored[1]]
           dup == \E i \in 1..Len(filtered) : IsDuplicate(pt, filtered[i].top_left, tpl)
       IN Filter(Tail(scored),
                 IF dup THEN filtered
                 ELSE Append(filtered, [top_left |-> pt, confidence |-> mat[scored[1]]]),
                 mat, tpl, k)

\* find_all(screen, template, threshold, max_results)
FindAll(mat, tpl, t, k) ==
  LET points == SelectSeq([i \in 1..Len(Cells) |-> i],
                          LAMBDA i : mat[i] >= Effective(t))
  IN Filter(SortDesc(points, mat), << >>, mat, tpl, k)

\* ImageMatcher.__init__, no frame looked at
NoImage ==
  [multi_scale |-> TRUE,
   image |-> [c1 |-> 5, ms |-> <<5, 5>>],       \* the frame and template of find
   found |-> [t \in Thresholds |-> 0 - 1],       \* what find returned for them at
                                                \* each threshold (-1: not called)
   all |-> [mat |-> << >>, tpl |-> <<0, 0>>, t |-> 0, k |-> 0,
            done |-> FALSE, out |-> << >>]]     \* a find_all: its arguments, whether
                                                \* it has returned, and what

\* a new frame is looked at with some template
Look(image) ==
  /\ image # img.image
  /\ img' = [img EXCEPT !.image = image, !.found = NoImage.found]
  /\ UNCHANGED <<engine, bg, adb, dev, scr, inp, hum>>

\* find(screen, template, threshold = t)
FindCall(t) ==
  /\ img' = [img EXCEPT !.found[t] = Find(img.image, t, img.multi_scale)]
  /\ UNCHANGED <<engine, bg, adb, dev, scr, inp, hum>>

\* find_all(screen, template, t, k) returns
FindAllCall ==
  /\ ~img.all.done /\ Len(img.all.mat) > 0
  /\ img' = [img EXCEPT !.all.done = TRUE,
                        !.all.out = FindAll(img.all.mat, img.all.tpl, img.all.t, img.all.k)]
  /\ UNCHANGED <<engine, bg, adb, dev, scr, inp, hum>>

\* the components after construction
InitUnits ==
  /\ dev = NoDevice
  /\ scr = NoScreen
  /\ inp = NoInput
  /\ hum = NoHuman
  /\ img = NoImage

(* -------------------------------------------------------- specifications *)

\* the engine, the scheduler and the ADB call, not started
InitIdle ==
  /\ mac = [m \in Macro |-> NoMacro]
  /\ thr = [t \in Thread |-> NoThread]
  /\ eng = [current_macro |-> 0, thread |-> 0, queue_stop |-> FALSE]
  /\ ctl = IdleCtl
  /\ bg = NoWorker
  /\ adb = NoCall

\* the ADBController and the input commands it sends
InitTap == InitIdle /\ InitUnits

NextTap ==
  \/ \E ok \in BOOLEAN, wm \in Sizes \cup {None}, ss \in Sizes \cup {None} :
       DevConnect(ok, wm, ss)
  \/ DevDisconnect
  \/ \E p \in Points : DevTap(p)
  \/ \E p \in Points, q \in Points : DevSwipe(p, q)

SpecTap == InitTap /\ [][NextTap]_vars

\* ImageMatcher.find on one frame and template at several thresholds
InitFind ==
  /\ InitIdle
  /\ dev = NoDevice /\ scr = NoScreen /\ inp = NoInput /\ hum = NoHuman
  /\ \E ms \in BOOLEAN : img = [NoImage EXCEPT !.multi_scale = ms]

NextFind ==
  \/ \E image \in Images : Look(image)
  \/ \E t \in Thresholds : FindCall(t)

SpecFind == InitFind /\ [][NextFind]_vars

\* ImageMatcher.find_all called with some result matrix, template size,
\* threshold and max_results
InitFindAll ==
  /\ InitIdle
  /\ dev = NoDevice /\ scr = NoScreen /\ inp = NoInput /\ hum = NoHuman
  /\ \E mat \in Matrices, tpl \in Templates, t \in Thresholds, k \in MaxResults :
       img = [NoImage EXCEPT !.all.mat = mat, !.all.tpl = tpl, !.all.t = t, !.all.k = k]

NextFindAll == FindAllCall

SpecFindAll == InitFindAll /\ [][NextFindAll]_vars

\* the Humanizer
InitHuman ==
  /\ InitIdle
  /\ dev = NoDevice /\ scr = NoScreen /\ inp = NoInput /\ img = NoImage
  /\ \E j \in BOOLEAN : hum = [NoHuman EXCEPT !.enable_jitter = j]

\* the regions handed to humanize_coords (<<0, 0>>: none)
Regions == {<<0, 0>>, <<5, 5>>, <<9, 30>>}

NextHuman ==
  \E p \in {<<0, 0>>, <<1, 3>>, <<10, 10>>}, r \in Regions, g \in Gauss \X Gauss :
    Humanize(p, r, g)

SpecHuman == InitHuman /\ [][NextHuman]_vars

\* the InputSimulator with the ADBController it sends to
InitClick == InitIdle /\ InitUnits

NextClick ==
  \/ Register
  \/ \E p \in Points, humanize \in BOOLEAN, g \in ClickGauss \X ClickGauss,
        hold \in Holds :
       \/ \E op \in {"click", "click_and_wait"} :
            Click(op, p, <<0, 0>>, humanize, g, hold)
       \/ \E op \in {"click_match", "click_match_and_wait"} :
            Click(op, p, <<9, 30>>, humanize, g, hold)

SpecClick == InitClick /\ [][NextClick]_vars

\* the ScreenCapture and the threads calling it
InitCapture == InitIdle /\ InitUnits

NextCapture ==
  \/ ScrTick
  \/ Invalidate
  \/ \E k \in Capturer :
       \/ \E force \in BOOLEAN : CapBegin(k, force)
       \/ CapHit(k)
       \/ \E o \in {"ok", "nobytes", "undecodable"} : CapTrip(k, o)
       \/ CapStore(k) \/ CapStamp(k)

SpecCapture == InitCapture /\ [][NextCapture]_vars

\* the scripts the engine specification starts: their steps are waits, which
\* neither fail nor raise, and they never run past their last step
EngineScripts == {Builtin, 5, 6}

\* the steps of run() those scripts (and the queue's) can take
EngineRunStep(t) ==
  \/ RunStart(t) \/ Setup(t) \/ LoopChk(t, EngineLoops) \/ BuiltinLoop(t)
  \/ Exec(t) \/ FlowStep(t) \/ PauseChk(t) \/ Fatal(t) \/ Teardown(t)
  \/ FinalChk(t) \/ FinalSet(t)

\* the queues the engine specification starts
EngineQueues == {1, 2}

\* the macro instances the engine specification may construct
EngineMacros == 3

\* the engine after construction
Init ==
  /\ mac = [m \in Macro |-> IF m <= EngineMacros THEN NoMacro
                            ELSE [NoMacro EXCEPT !.state = "absent"]]
  /\ thr = [t \in Thread |-> NoThread]
  /\ eng = [current_macro |-> 0, thread |-> 0, queue_stop |-> FALSE]
  /\ ctl = IdleCtl
  /\ bg = NoWorker
  /\ adb = NoCall
  /\ InitUnits

Control ==
  \/ PauseCall \/ PauseSet \/ ResumeCall \/ ResumeSet \/ TogglePause
  \/ StopCall \/ StopSet \/ StopJoin

Next ==
  \/ Control
  \/ StopChk
  \/ \E s \in EngineScripts : StartCall(s)
  \/ StartNew
  \/ \E q \in EngineQueues, n \in 1..MaxTotal : StartQueueCall(q, n)
  \/ QueueNew
  \/ StopQueueCall
  \/ \E t \in Thread :
       \/ Begin(t) \/ EngineRunStep(t) \/ RunExit(t)
       \/ QRound(t) \/ QItem(t) \/ QRep(t) \/ QAfterRun(t) \/ QGap(t) \/ QEnd(t)

Spec == Init /\ [][Next]_vars

\* one run: the state after start(SampleMacro) or start_script(s) has returned
InitRun ==
  \E s \in {Builtin} \cup ScriptIds :
    /\ mac = [m \in Macro |-> IF m = 1 THEN NewMacro(s) ELSE NoMacro]
    /\ thr = [t \in Thread |->
                IF t = 1 THEN [NoThread EXCEPT !.kind = "run", !.pc = "spawned"]
                ELSE NoThread]
    /\ eng = [current_macro |-> 1, thread |-> 1, queue_stop |-> FALSE]
    /\ ctl = IdleCtl
    /\ bg = NoWorker
    /\ adb = NoCall
    /\ InitUnits

NextRun ==
  \/ Control
  \/ StopIdle
  \/ \E t \in Thread : Begin(t) \/ RunStep(t, MaxLoops) \/ RunExit(t)

SpecRun == InitRun /\ [][NextRun]_vars

\* one run, from inside start() / start_script(): the worker thread has been
\* started and on_macro_started has not been invoked yet
InitStart ==
  \E s \in {Builtin} \cup ScriptIds :
    /\ mac = [m \in Macro |-> IF m = 1 THEN NewMacro(s) ELSE NoMacro]
    /\ thr = [t \in Thread |->
                IF t = 1 THEN [NoThread EXCEPT !.kind = "run", !.pc = "spawned"]
                ELSE NoThread]
    /\ eng = [current_macro |-> 1, thread |-> 1, queue_stop |-> FALSE]
    /\ ctl = [IdleCtl EXCEPT !.pc = "start_notify"]
    /\ bg = NoWorker
    /\ adb = NoCall
    /\ InitUnits

NextStart ==
  \/ StartNotify
  \/ Control
  \/ \E t \in Thread : Begin(t) \/ RunStep(t, MaxLoops) \/ RunExit(t)

SpecStart == InitStart /\ [][NextStart]_vars

\* one queue: the state after start_queue(QueueLib[q], n) has returned
InitQueue ==
  \E q \in QueueIds, n \in 1..MaxTotal :
    /\ mac = [m \in Macro |-> NoMacro]
    /\ thr = [t \in Thread |->
                IF t = 1 THEN [NoThread EXCEPT !.kind = "queue", !.pc = "q_round",
                                               !.queue = q, !.total = n]
                ELSE NoThread]
    /\ eng = [current_macro |-> 0, thread |-> 1, queue_stop |-> FALSE]
    /\ ctl = IdleCtl
    /\ bg = NoWorker
    /\ adb = NoCall
    /\ InitUnits

\* the steps of run() the queue's scripts can take
QueueRunStep(t) ==
  \/ RunStart(t) \/ Setup(t) \/ LoopChk(t, EngineLoops) \/ Exec(t) \/ FlowStep(t)
  \/ PauseChk(t) \/ Fatal(t) \/ Teardown(t) \/ FinalChk(t) \/ FinalSet(t)

NextQueue ==
  \/ Control
  \/ StopChk
  \/ StopQueueCall
  \/ \E t \in Thread :
       \/ QueueRunStep(t)
       \/ QRound(t) \/ QItem(t) \/ QRep(t) \/ QAfterRun(t) \/ QGap(t) \/ QEnd(t)

SpecQueue == InitQueue /\ [][NextQueue]_vars

\* the BackgroundWorker with a non-empty action list handed to it
InitBg ==
  /\ mac = [m \in Macro |-> NoMacro]
  /\ thr = [t \in Thread |-> NoThread]
  /\ eng = [current_macro |-> 0, thread |-> 0, queue_stop |-> FALSE]
  /\ ctl = IdleCtl
  /\ bg = [NoWorker EXCEPT !.set = 1]
  /\ adb = NoCall
  /\ InitUnits

NextBg ==
  \/ BgTick \/ BgStart \/ BgStop \/ BgJoin \/ BgPause \/ BgResume
  \/ \E a \in ActionIds : BgReplace(a) \/ BgSetActions(a)
  \/ \E b \in BgThread :
       \/ BgTop(b) \/ BgPauseSleep(b) \/ BgSnap(b) \/ BgEntry(b) \/ BgExec(b)
       \/ BgTickSleep(b)

SpecBg == InitBg /\ [][NextBg]_vars

\* the ADBController before any shell command
InitShell ==
  /\ mac = [m \in Macro |-> NoMacro]
  /\ thr = [t \in Thread |-> NoThread]
  /\ eng = [current_macro |-> 0, thread |-> 0, queue_stop |-> FALSE]
  /\ ctl = IdleCtl
  /\ bg = NoWorker
  /\ adb = NoCall
  /\ InitUnits

NextShell ==
  \/ \E r \in 0..MaxRetries : ShellCall(r)
  \/ ShellAttempt \/ ShellDisconnect \/ ShellConnect

SpecShell == InitShell /\ [][NextShell]_vars

(* ---------------------------------------------------------------- claims *)

\* the worker is inside an iteration of the run loop
Iterating(t) == thr[t].pc \in {"loop", "flow", "retry_sleep", "on_error", "cooldown"}

\* the worker has left the run loop
Leaving(t) == thr[t].pc \in {"teardown", "finalchk", "finalset", "run_exit"}

\* C1: when start or start_script is called while a run is RUNNING or PAUSED,
\* the old run's worker is out of its iterations before the new run's worker
\* executes one: the two workers never execute iterations at the same time.
C1_OneActiveRun ==
  \A t \in Thread :
    LET o == thr[t].after IN
      (thr[t].kind = "run" /\ o # 0 /\ thr[o].kind = "run" /\ Iterating(t))
        => ~Iterating(o)

\* C2: when start, start_script or start_queue is called while a queue is
\* executing, the old queue is stopped as a whole: once the new worker
\* exists, the old queue thread begins no further sub-run.
C2_QueueStoppedAsWhole ==
  [][\A o \in Thread :
       (thr[o].kind = "queue" /\ thr[o].pc = "q_rep" /\ thr'[o].pc = "run_start")
         => ~\E t \in Thread : thr[t].after = o]_vars

\* C3: after stop() was requested on a run that was RUNNING or PAUSED, the
\* worker terminates with the run in STOPPED.
C3_StopEndsStopped ==
  \A t \in Thread :
    (thr[t].kind = "run" /\ thr[t].pc = "done" /\ thr[t].macro # 0
       /\ mac[thr[t].macro].stopReq)
      => mac[thr[t].macro].state = "stopped"

\* C4: STOPPED and ERROR are terminal: a macro in one of them never changes
\* state again.
C4_TerminalStates ==
  [][\A m \in Macro :
       mac[m].state \in {"stopped", "error"} => mac'[m].state = mac[m].state]_vars

\* C5: pause() changes the state only from RUNNING, resume() only from
\* PAUSED, stop() only from RUNNING or PAUSED: every state change they notify
\* replaced one of those states.
C5_ControlsOnlyFromTheirStates ==
  \A m \in Macro :
    /\ mac[m].noteBy = "pause" => mac[m].noteOld = "running"
    /\ mac[m].noteBy = "resume" => mac[m].noteOld = "paused"
    /\ mac[m].noteBy \in {"stop", "flow"} => mac[m].noteOld \in {"running", "paused"}

\* C6: an exception raised by an iteration is handed to on_error exactly
\* once; the handler changes neither the state nor the step index nor the
\* retry counter and goes on to the cooldown, from where the loop test is
\* reached again and, the state being RUNNING, another iteration begins: the
\* exception never takes the worker to the ERROR or the exit path.
C6_IterationErrorContained ==
  [][\A t \in Thread :
       LET m == thr[t].macro IN
         /\ (thr[t].pc = "loop" /\ thr'[t].pc = "on_error")
              => /\ mac'[m].state = mac[m].state
                 /\ mac'[m].step_idx = mac[m].step_idx
                 /\ mac'[m].retry_count = mac[m].retry_count
                 /\ mac'[m].errs = mac[m].errs
         /\ (thr[t].pc = "on_error" /\ thr'[t].pc # "on_error")
              => /\ thr'[t].pc = "cooldown"
                 /\ mac'[m].errs = mac[m].errs + 1
                 /\ mac'[m].state = mac[m].state
                 /\ mac'[m].step_idx = mac[m].step_idx
                 /\ mac'[m].retry_count = mac[m].retry_count
         /\ (thr[t].pc = "cooldown" /\ thr'[t].pc # "cooldown")
              => thr'[t].pc = "pausechk" /\ mac' = mac
         /\ (thr[t].pc = "loopchk" /\ thr'[t].pc # "loopchk"
               /\ mac[m].state = "running")
              => thr'[t].pc = "loop" /\ mac'[m].loop_count = mac[m].loop_count + 1
    ]_vars

\* an iteration raised, the run is still RUNNING and a later iteration is
\* being executed
C6_Witness ==
  \E t \in Thread :
    /\ thr[t].pc = "loop" /\ thr[t].macro # 0
    /\ mac[thr[t].macro].errs >= 1
    /\ mac[thr[t].macro].state = "running"
    /\ mac[thr[t].macro].loop_count >= 2

\* C7: teardown() is called exactly once on every exit of run(), after the
\* last iteration; whether it raises or not, run() goes on to the final state
\* test with the state untouched, and returns with the state STOPPED or ERROR
\* set by that test.
C7_TeardownOnce ==
  [][\A t \in Thread :
       LET m == thr[t].macro IN
         /\ Iterating(t) => thr[t].tear = 0
         /\ (thr[t].pc = "teardown" /\ thr'[t].pc # "teardown")
              => /\ thr'[t].pc = "finalchk"
                 /\ thr[t].tear = 0 /\ thr'[t].tear = 1
                 /\ mac' = mac
         /\ (Leaving(t) /\ thr'[t].pc # thr[t].pc)
              => thr'[t].pc \in {"finalchk", "finalset", "run_exit", "done", "q_gap", "q_rep"}
         /\ (thr[t].pc # "run_exit" /\ thr'[t].pc = "run_exit")
              => /\ thr[t].pc \in {"finalchk", "finalset"}
                 /\ thr'[t].tear = 1
                 /\ mac'[m].state \in {"stopped", "error"}
                 /\ (thr[t].pc = "finalchk" => mac[m].state = "error")
    ]_vars

\* a run that executed iterations has returned after its one teardown
C7_Witness ==
  \E t \in Thread :
    /\ thr[t].pc = "run_exit" /\ thr[t].tear = 1
    /\ mac[thr[t].macro].loop_count >= 1
    /\ mac[thr[t].macro].state = "stopped"

\* the script has no steps
EmptyScript(m) == mac[m].script # Builtin /\ Len(Steps(m)) = 0

\* C8: a run of a script with zero steps executes no step, keeps loop_count
\* at 0, performs teardown and ends in ERROR.
C8_EmptyScriptEndsInError ==
  \A t \in Thread :
    (thr[t].pc \in {"run_exit", "done"} /\ thr[t].macro # 0 /\ EmptyScript(thr[t].macro))
      => /\ mac[thr[t].macro].steps = 0
         /\ mac[thr[t].macro].loop_count = 0
         /\ thr[t].tear = 1
         /\ mac[thr[t].macro].state = "error"

\* C9: a PAUSED run blocks until it is resumed or stopped: the worker leaves
\* the run loop only when the state is STOPPED.
C9_PausedRunBlocks ==
  [][\A t \in Thread :
       (thr[t].pc = "loopchk" /\ thr'[t].pc = "teardown")
         => mac[thr[t].macro].state = "stopped"]_vars

\* C10: a step with on_fail = retry and max_retries = k that keeps failing is
\* attempted exactly k times: after each of the first k - 1 failures the
\* index stays, the retry counter is the number of failures and retry_delay
\* is slept; after the k-th the index advances, the retry counter is 0 and
\* nothing is slept.
C10_RetryThenAdvance ==
  [][\A t \in Thread :
       LET m == thr[t].macro
           st == StepAt(Steps(m), thr[t].sidx)
       IN (thr[t].pc = "flow" /\ thr'[t].pc # "flow" /\ ~thr[t].ok
             /\ st.on_fail.op = "retry")
            => IF mac[m].fails = st.max_retries
               THEN /\ mac'[m].step_idx = thr[t].sidx + 1
                    /\ mac'[m].retry_count = 0
                    /\ mac'[m].last = "force"
                    /\ thr'[t].pc = "pausechk"
               ELSE /\ mac[m].fails < st.max_retries
                    /\ mac'[m].step_idx = thr[t].sidx
                    /\ mac'[m].retry_count = mac[m].fails
                    /\ thr'[t].pc = "retry_sleep"
    ]_vars

\* the step with max_retries = 3 has failed three times and was left
C10_Witness ==
  \E m \in Macro :
    /\ mac[m].script = 3
    /\ mac[m].last = "force" /\ mac[m].fails = 3
    /\ mac[m].step_idx = 1 /\ mac[m].retry_count = 0

\* the directive _flow followed after the step the worker executed last
LastDirective(t) ==
  LET st == StepAt(Steps(thr[t].macro), thr[t].sidx)
  IN IF thr[t].ok THEN st.on_success ELSE st.on_fail

\* C11: a goto whose target is not a step index acts as advance: the step
\* executed after it is the one after the step that held the goto, or step 0
\* when that was the last step.
C11_BadGotoAdvances ==
  [][\A t \in Thread :
       LET m == thr[t].macro
           n == Len(Steps(m))
       IN (thr[t].pc = "loop" /\ thr'[t].pc = "flow" /\ mac[m].last = "goto"
             /\ LastDirective(t).n \notin 0..(n - 1))
            => thr'[t].sidx = IF thr[t].sidx + 1 < n THEN thr[t].sidx + 1 ELSE 0
    ]_vars

\* the run of the 2-step script (click-on-template with max_retries 2, then a
\* click with on_success stop) with step 1 failing at each attempt, no
\* exception and no control call, has ended
RetryScriptDone(t) ==
  /\ thr[t].kind = "run" /\ thr[t].pc = "done" /\ thr[t].macro # 0
  /\ mac[thr[t].macro].script = 2
  /\ mac[thr[t].macro].nfail = 2 /\ mac[thr[t].macro].steps = 3
  /\ mac[thr[t].macro].errs = 0 /\ ctl.calls = 0

\* C12: that run ends after 2 failed attempts of step 1 and one execution of
\* step 2 in STOPPED with loop_count 2.
C12_RetryScriptEndToEnd ==
  \A t \in Thread :
    RetryScriptDone(t)
      => /\ mac[thr[t].macro].state = "stopped"
         /\ mac[thr[t].macro].last = "stop"
         /\ mac[thr[t].macro].loop_count = 2

\* every step of the script succeeds whenever it returns, with the directive
\* advance
AllAdvance(m) ==
  /\ mac[m].script # Builtin /\ Len(Steps(m)) >= 1
  /\ \A i \in 1..Len(Steps(m)) :
       Steps(m)[i].type \notin CAN_FAIL_TYPES /\ Steps(m)[i].on_success.op = "next"

\* C13: a script whose steps all succeed with advance, no step raising and
\* stop() never called, never reaches STOPPED.
C13_AdvanceScriptRunsOn ==
  \A m \in Macro :
    (mac[m].state # "none" /\ AllAdvance(m) /\ mac[m].errs = 0 /\ ~mac[m].stopReq)
      => mac[m].state # "stopped"

\* C14: after the action list was replaced while the worker runs, an entry of
\* the new list is executed only on a tick at least a fresh interval (less
\* the jitter) after the replacement, so not on the first tick after it.
C14_ReplacedSetWaits ==
  \A b \in BgThread :
    (bg.w[b].pc = "exec" /\ bg.replacedAt > 0 /\ bg.w[b].gen = bg.gen)
      => LET a == Actions(bg.w[b].snap)[bg.w[b].pos]
         IN bg.w[b].now >= bg.replacedAt + a.interval - a.interval_jitter

\* C15: when executing an entry raises, the worker goes on to the next entry
\* of the same tick with no fire time recorded and the run flag untouched; the
\* loop is left only from its head, with the run flag cleared.
C15_EntryFailureContained ==
  [][\A b \in BgThread :
       /\ (bg.w[b].pc = "exec" /\ bg'.w[b].pc # "exec")
            => /\ bg'.w[b].pc = "entry"
               /\ bg'.w[b].pos = bg.w[b].pos + 1
               /\ bg'.running = bg.running
               /\ (bg'.w[b].failed # bg.w[b].failed => bg'.last = bg.last)
       /\ (bg.w[b].pc = "entry" /\ bg'.w[b].pc = "tick_sleep")
            => bg.w[b].pos > Len(Actions(bg.w[b].snap)) \/ ~bg.running
       /\ (bg.w[b].pc = "tick_sleep" /\ bg'.w[b].pc # "tick_sleep")
            => bg'.w[b].pc = "top"
       /\ (BgAlive(b) /\ bg'.w[b].pc = "done")
            => bg.w[b].pc = "top" /\ ~bg.running
    ]_vars

\* in one tick entry 1 raised and entry 2 was executed after it
C15_Witness ==
  \E b \in BgThread :
    bg.w[b].failed = {1} /\ bg.w[b].fired = {2} /\ bg.running

\* C16: a tick that finds the pause flag set executes nothing: the worker
\* sleeps and polls again, and stays alive; pause() and resume() change
\* nothing but the flag.
C16_PausedSchedulerIdles ==
  [][\A b \in BgThread :
       /\ (bg.w[b].pc = "top" /\ bg.running /\ bg.paused /\ bg'.w[b].pc # "top")
            => bg'.w[b].pc = "pause_sleep" /\ bg'.last = bg.last
       /\ (bg.w[b].pc = "pause_sleep" /\ bg'.w[b].pc # "pause_sleep")
            => bg'.w[b].pc = "top" /\ bg'.last = bg.last
       /\ (bg'.paused # bg.paused /\ bg'.running = bg.running)
            => bg'.w = bg.w /\ bg'.last = bg.last
    ]_vars

\* a worker that waited in a paused poll is executing an action again, the
\* worker not having been restarted
C16_Witness ==
  \E b \in BgThread :
    bg.w[b].waited /\ bg.w[b].pc = "exec" /\ ~bg.paused /\ bg.running

\* the sub-runs a queue owes: total_repeats times the repeats of the items
\* that load
RECURSIVE SumRepeats(_)
SumRepeats(items) ==
  IF Len(items) = 0 THEN 0
  ELSE (IF items[1].loads THEN items[1].repeats ELSE 0) + SumRepeats(Tail(items))

NoLoadFailure(q) == \A i \in 1..Len(QueueLib[q]) : QueueLib[q][i].loads

\* the order round, then item, then repetition
Before(a, b) ==
  \/ a[1] < b[1]
  \/ a[1] = b[1] /\ a[2] < b[2]
  \/ a[1] = b[1] /\ a[2] = b[2] /\ a[3] < b[3]

\* thread t is inside macro.run()
InsideRun(t) ==
  thr[t].pc \in {"run_start", "setup", "loopchk", "loop", "flow", "retry_sleep",
                 "on_error", "cooldown", "pausechk", "fatal", "teardown",
                 "finalchk", "finalset"}

\* C17: with no stop request and no load failure, a queue thread begins its
\* sub-runs in the order round, item, repetition, each on a macro constructed
\* for it (IDLE, step index 0, retry counter 0) while no run is in progress,
\* and when it has finished (on_queue_done, once) it has made exactly
\* total_repeats x (sum of the repeats) sub-runs.
C17_QueueRunsAllInOrder ==
  [][\A t \in Thread :
       (thr[t].kind = "queue" /\ NoLoadFailure(thr[t].queue) /\ ~ctl'.halted) =>
         LET items == QueueLib[thr[t].queue] IN
           /\ thr'[t].runs # thr[t].runs =>
                LET r == thr'[t].lastrun
                    m == thr'[t].macro
                IN /\ thr'[t].runs = thr[t].runs + 1
                   /\ Before(thr[t].lastrun, r)
                   /\ r[1] <= thr[t].total /\ r[2] <= Len(items)
                   /\ r[3] <= items[r[2]].repeats
                   /\ mac[m].state = "none"
                   /\ mac'[m].state = "idle" /\ mac'[m].step_idx = 0
                   /\ mac'[m].retry_count = 0
                   /\ mac'[m].script = items[r[2]].script
                   /\ \A u \in Thread : ~InsideRun(u)
           /\ thr'[t].pc = "done" =>
                thr'[t].runs = thr[t].total * SumRepeats(items)
           /\ thr[t].pc = "done" => thr'[t] = thr[t]]_vars

C17_Witness ==
  \E t \in Thread :
    /\ thr[t].kind = "queue" /\ thr[t].pc = "done" /\ ~ctl.halted
    /\ thr[t].queue = 3 /\ thr[t].total = 2 /\ thr[t].runs = 4
    /\ thr[t].lastrun = <<2, 1, 2>>

\* C18: once stop_queue() has returned, the queue thread starts no further
\* sub-run and the sub-run it is in begins no further iteration.
C18_StopQueueStopsSubRun ==
  [][(eng.queue_stop /\ ctl.pc = "idle") =>
       \A t \in Thread :
         thr[t].kind = "queue" =>
           /\ thr'[t].runs = thr[t].runs
           /\ ~(thr[t].pc = "loopchk" /\ thr'[t].pc = "loop")]_vars

\* C19: with no stop request, a queue with an item that fails to load makes
\* no sub-run for that item, goes on to the next item from it, and makes
\* the sub-runs of the items that load, in order, in every round: when it has
\* finished it has made total_repeats x (sum of their repeats) sub-runs.
C19_LoadFailureSkipped ==
  [][\A t \in Thread :
       (thr[t].kind = "queue" /\ ~NoLoadFailure(thr[t].queue) /\ ~ctl'.halted) =>
         LET items == QueueLib[thr[t].queue] IN
           /\ thr'[t].runs # thr[t].runs =>
                LET r == thr'[t].lastrun IN
                  /\ items[r[2]].loads
                  /\ Before(thr[t].lastrun, r)
                  /\ r[3] <= items[r[2]].repeats
           /\ (/\ thr[t].pc = "q_item" /\ thr[t].idx < Len(items)
               /\ ~items[thr[t].idx + 1].loads /\ thr'[t] # thr[t]) =>
                /\ thr'[t].pc = "q_item" /\ thr'[t].idx = thr[t].idx + 1
                /\ thr'[t].round = thr[t].round
           /\ thr'[t].pc = "done" =>
                thr'[t].runs = thr[t].total * SumRepeats(items)]_vars

C19_Witness ==
  \E t \in Thread :
    /\ thr[t].kind = "queue" /\ thr[t].pc = "done" /\ ~ctl.halted
    /\ thr[t].queue = 4 /\ thr[t].total = 2 /\ thr[t].runs = 4
    /\ thr[t].lastrun = <<2, 2, 2>>

\* C20: a shell command sent with retries = r is run at most r + 1 times; a
\* call that returns after a success has reconnected once for each attempt
\* before it; a call that returns a failure has made r + 1 attempts and r
\* reconnects; a disconnect is always followed by one connect; and a call in
\* which an attempt came back failed ends by returning, never by raising.
C20_BoundedRetry ==
  /\ adb.execs <= adb.retries + 1
  /\ adb.disc \in {adb.conn, adb.conn + 1}
  /\ adb.pc = "returned" =>
       /\ adb.disc = adb.conn /\ adb.conn = adb.execs - 1
       /\ adb.result = "ok" => adb.fails = adb.execs - 1
       /\ adb.result = "fail" => adb.execs = adb.retries + 1 /\ adb.conn = adb.retries
  /\ adb.pc = "raised" => adb.fails = 0

\* trunc(x * l / s) in exact arithmetic
Exact(p, l, s) == <<(p[1] * l[1]) \div s[1], (p[2] * l[2]) \div s[2]>>

\* C21: after a connect that obtained both sizes, the points of a tap or a
\* swipe are sent as (trunc(x * Lw / Sw), trunc(y * Lh / Sh)); as long as no
\* scale was ever computed they are sent unchanged.
C21_ScaledCoordinates ==
  \A i \in 1..Len(dev.sent.at) :
    /\ (dev.wm # None /\ dev.ss # None) =>
         dev.sent.out[i] = Exact(dev.sent.at[i], dev.wm, dev.ss)
    /\ ~dev.calibrated => dev.sent.out[i] = dev.sent.at[i]

C24_ClickEmitsEvent ==
  /\ Len(inp.events) = inp.clicks
  /\ inp.clicks > 0 => inp.events[Len(inp.events)] = inp.to

\* C25: with a region supplied, the humanized point is within a third of
\* the region of the point given, on each axis, and is never negative.
C25_HumanizedWithinThird ==
  (hum.op = "coords" /\ hum.region # <<0, 0>>) =>
    \A i \in 1..2 :
      LET d == hum.to[i] - hum.at[i] IN
        /\ 3 * d <= hum.region[i] /\ 0 - 3 * d <= hum.region[i]
        /\ hum.to[i] >= 0

\* C26: for one frame and template, if find returns a match at a threshold
\* then find returns a match at every lower threshold it is called with,
\* 0 included.
C26_FindMonotone ==
  \A t1 \in Thresholds, t2 \in Thresholds :
    (t1 < t2 /\ img.found[t2] > 0 /\ img.found[t1] # 0 - 1) => img.found[t1] > 0

\* C27: the results of find_all are pairwise at least half a template apart
\* on one axis, at most max_results, in descending order of confidence, and
\* each at or above the threshold.
C27_FindAllSuppressed ==
  img.all.done =>
  LET out == img.all.out IN
    /\ \A i \in 1..Len(out), j \in 1..Len(out) :
         i < j =>
           /\ \/ 2 * Abs(out[i].top_left[1] - out[j].top_left[1]) >= img.all.tpl[1]
              \/ 2 * Abs(out[i].top_left[2] - out[j].top_left[2]) >= img.all.tpl[2]
           /\ out[i].confidence >= out[j].confidence
    /\ Len(out) <= img.all.k
    /\ \A i \in 1..Len(out) : out[i].confidence >= img.all.t

C27_Witness ==
  /\ img.all.done /\ Len(img.all.out) = 2 /\ img.all.k = 2 /\ img.all.tpl = <<4, 4>>
  /\ img.all.mat = <<19, 17, 17, 5, 17>> /\ img.all.t = 10
  /\ img.all.out[2].top_left = <<2, 0>>

\* C28: executing never changes the definitions handed to the core. A script
\* is read only (ScriptLib is fixed and the interpreter writes counters only);
\* for the scheduler: the BackgroundActionSet object handed to the worker
\* keeps the action list it had when it was handed, whatever start, stop,
\* set_actions and ticks follow
C28_DefinitionsUnchanged == bg.given # 0 => bg.set = bg.given

\* C29: whatever the directives, goto with any integer target included, the
\* step index is within 0..N each time the interpreter is about to run an
\* iteration of a script of N steps (no out-of-range index is left by the
\* iteration before)
C29_IndexInRange ==
  \A t \in Thread :
    (thr[t].pc = "loop" /\ ~IsBuiltin(thr[t].macro))
      => mac[thr[t].macro].step_idx \in 0..Len(Steps(thr[t].macro))

\* C30: after an executed step the index and the retry counter follow the
\* directive its outcome selects, the counter being taken as 0 when the step
\* succeeded: next -> (index + 1, 0); loop -> (0, 0); goto:N with N a step
\* index -> (N, 0); retry below the limit -> (index, counter + 1); retry
\* reaching max_retries -> (index + 1, 0); stop -> the index stays, the
\* counter is 0 after a success, and the state is STOPPED
C30_FlowFollowsDirective ==
  [][\A t \in Thread :
       (thr[t].pc = "flow" /\ thr'[t].pc # "flow") =>
         LET m == thr[t].macro
             st == StepAt(Steps(m), thr[t].sidx)
             d == LastDirective(t)
             i == thr[t].sidx
             c == IF thr[t].ok THEN 0 ELSE mac[m].retry_count
             to == <<mac'[m].step_idx, mac'[m].retry_count>>
         IN CASE d.op = "next" -> to = <<i + 1, 0>>
              [] d.op = "loop" -> to = <<0, 0>>
              [] d.op = "goto" /\ d.n \in 0..(Len(Steps(m)) - 1) -> to = <<d.n, 0>>
              [] d.op = "retry" /\ c + 1 < st.max_retries -> to = <<i, c + 1>>
              [] d.op = "retry" /\ c + 1 >= st.max_retries -> to = <<i + 1, 0>>
              [] d.op = "stop" -> /\ to = <<i, c>>
                                  /\ mac'[m].state = "stopped"
              [] OTHER -> TRUE
    ]_vars

\* the second step of the goto script has failed, then succeeded: the run was
\* stopped by its stop directive with the counter back at 0
C30_Witness ==
  \E m \in Macro :
    /\ mac[m].script = 9 /\ mac[m].last = "stop" /\ mac[m].state = "stopped"
    /\ mac[m].step_idx = 1 /\ mac[m].retry_count = 0
    /\ mac[m].nfail >= 2

\* C31: each iteration of the step interpreter executes exactly one step, so
\* between iterations loop_count equals the number of steps executed so far in
\* the run
C31_OneStepPerIteration ==
  \A t \in Thread :
    (thr[t].kind = "run" /\ thr[t].pc = "loopchk" /\ ~IsBuiltin(thr[t].macro))
      => mac[thr[t].macro].loop_count = mac[thr[t].macro].steps

\* C32: once the directive applied after a step is stop, the run is STOPPED
\* and stays so, and no further step is executed, whatever pause() and
\* resume() calls are made concurrently
C32_StopDirectiveHolds ==
  [][\A t \in Thread :
       (thr[t].kind = "run" /\ thr[t].macro # 0 /\ mac[thr[t].macro].last = "stop")
         => /\ mac'[thr[t].macro].state = "stopped"
            /\ mac'[thr[t].macro].steps = mac[thr[t].macro].steps
    ]_vars

\* C33: while the action list is not replaced, a disabled entry is never
\* executed, an entry is executed only on a tick whose time is at least its
\* last fire time plus its interval less its jitter, the fire time is recorded
\* after each successful execution, and two consecutive successful
\* executions of an entry are at least interval - interval_jitter apart
C33_FiringsSpaced ==
  [][\A b \in BgThread :
       (bg.w[b].pc = "exec" /\ bg'.w[b].pc # "exec" /\ bg.w[b].gen = bg.gen) =>
         LET i == bg.w[b].pos
             a == Actions(bg.w[b].snap)[i]
         IN /\ a.enabled
            /\ i \in bg'.w[b].fired =>
                 /\ bg'.last[i] = bg.clock
                 /\ bg.firedAt[i] # 0 =>
                      bg.clock >= bg.firedAt[i] + a.interval - a.interval_jitter
    ]_vars

\* C34: across any start() and stop() calls at most one worker thread is
\* alive at any time, and once stop() has returned no entry is begun until
\* the next start()
C34_SingleWorker ==
  [][/\ \A b, c \in BgThread : (BgAlive(b)' /\ BgAlive(c)') => b = c
     /\ \A b \in BgThread :
          (~bg.running /\ bg.join = 0) => ~(bg.w[b].pc = "entry" /\ bg'.w[b].pc = "exec")
    ]_vars

\* C35: once the action set has been replaced while the worker runs, no
\* entry of the old list is executed any more and no fire time of an old
\* entry is recorded for the new list, even when the replacement falls in
\* the middle of a tick
C35_ReplacementIsClean ==
  [][\A b \in BgThread :
       bg.w[b].gen < bg.swapGen =>
         /\ ~(bg.w[b].pc = "entry" /\ bg'.w[b].pc = "exec")
         /\ (bg.w[b].pc = "exec" /\ bg'.w[b].pc # "exec") => bg'.last = bg.last
    ]_vars

\* C36: under concurrent capture() calls the cached frame and the cached time
\* belong to the same capture, so a frame served from the cache without a
\* round-trip was requested from the device less than the TTL before the call
C36_CacheConsistent ==
  \A k \in Capturer :
    (scr.c[k].pc = "ret" /\ ~scr.c[k].trip /\ scr.c[k].ret # 0)
      => scr.c[k].now - scr.c[k].req < CacheTtl

\* C37: each worker started by start()/start_script() executes the macro
\* created by the call that spawned it, so no macro has run() executed by
\* two worker threads, even when the calls follow each other before the
\* earlier worker has begun
C37_OneWorkerPerMacro ==
  \A t, u \in Thread :
    (thr[t].kind = "run" /\ thr[u].kind = "run"
       /\ thr[t].macro # 0 /\ thr[t].macro = thr[u].macro) => t = u

\* C38: a MacroEngine.stop() made once start()/start_script() has returned
\* is never lost, also when it comes before the worker has set RUNNING: the
\* run it was made for ends without executing an iteration after it
C38_StopNeverDropped ==
  \A m \in Macro : mac[m].stopMissed => mac[m].loop_count = 0

\* C39: for a run started through start()/start_script(), on_macro_started
\* is invoked before the on_macro_stopped of that run, which is invoked once
\* the run has reached its terminal state: no worker has made its
\* on_macro_stopped call while the start call has yet to invoke
\* on_macro_started
C39_StartedBeforeStopped ==
  \A t \in Thread :
    (thr[t].kind = "run" /\ thr[t].pc = "done") => ctl.pc # "start_notify"

\* C40: pause() followed by resume() is transparent to the interpreter: a
\* step in progress when the run is paused (a wait-for-template step
\* included) gets the outcome the screen gives it, as in a run without the
\* pause, and is not failed by the pause
C40_PauseTransparent ==
  [][\A t \in Thread :
       (thr[t].pc = "loop" /\ thr'[t].pc = "flow"
          /\ mac[thr[t].macro].state = "paused")
         => thr'[t].ok = thr'[t].seen
    ]_vars

====
